---- MODULE Spec2Model ----
(***************************************************************************)
(* A model of the SVG toolpath reader (src/Parser.py, src/CSS.py): the     *)
(* length resolver, the transform compiler, the CSS cascade and the dash   *)
(* sequencer.  Numbers are exact rationals <<numerator, denominator>> in   *)
(* lowest terms; strings are the program's strings, read character by      *)
(* character the way the Python string methods and regular expressions     *)
(* read them.                                                              *)
(***************************************************************************)
EXTENDS Integers, Sequences, FiniteSets, TLC

VARIABLES
    resolution,                                     \* Parser.__init__, 46
    viewport_x, viewport_y, viewport_w, viewport_h, \* Parser.__init__, 50-53
    image_w, image_h, unit_w, unit_h,               \* Parser.__init__, 54-57
    dasharray, dasharray_offset, dasharray_length,  \* Parser.__init__, 94-96
    css_dasharray, css_dasharray_length,            \* CSS.__init__, 57-58
    tree,      \* the element tree handed to Parser.inheritance
    op,        \* "call" while a call is pending, then the operation that ran
    args,      \* the arguments of the call
    ret,       \* what it returned (or the exception it raised)
    out        \* the commands it yielded

vars == <<resolution, viewport_x, viewport_y, viewport_w, viewport_h, image_w, image_h,
          unit_w, unit_h, dasharray, dasharray_offset, dasharray_length,
          css_dasharray, css_dasharray_length, tree, op, args, ret, out>>

parserVars == <<resolution, viewport_x, viewport_y, viewport_w, viewport_h, image_w, image_h,
                unit_w, unit_h, dasharray, dasharray_offset, dasharray_length>>

cssVars == <<css_dasharray, css_dasharray_length>>

(***************************************************************************)
(* Exact rational arithmetic (the real-number reading of Python floats).   *)
(***************************************************************************)
Abs(n) == IF n < 0 THEN -n ELSE n

RECURSIVE GCD(_, _)
GCD(a, b) == IF b = 0 THEN a ELSE CHOOSE g \in {GCD(b, r) : r \in {a % b}} : TRUE

Rat(n, d) ==
    LET g == GCD(Abs(n), Abs(d))
        s == IF d < 0 THEN -1 ELSE 1
    IN  <<(s * n) \div g, (s * d) \div g>>

R(n) == <<n, 1>>
RAdd(a, b) == Rat(a[1] * b[2] + b[1] * a[2], a[2] * b[2])
RSub(a, b) == Rat(a[1] * b[2] - b[1] * a[2], a[2] * b[2])
RMul(a, b) == Rat(a[1] * b[1], a[2] * b[2])
RDiv(a, b) == Rat(a[1] * b[2], a[2] * b[1])
RNeg(a) == <<-a[1], a[2]>>
RLt(a, b) == a[1] * b[2] < b[1] * a[2]
RLe(a, b) == a[1] * b[2] <= b[1] * a[2]
RMin(a, b) == IF RLt(b, a) THEN b ELSE a
RMax(a, b) == IF RLt(a, b) THEN b ELSE a
RZero == R(0)

RECURSIVE Pow10(_)
Pow10(k) == IF k = 0 THEN 1 ELSE 10 * Pow10(k - 1)

(***************************************************************************)
(* Python string methods.                                                  *)
(***************************************************************************)
Char(s, i) == SubSeq(s, i, i)
From(s, i) == SubSeq(s, i, Len(s))

StartsWith(s, p) == Len(p) <= Len(s) /\ SubSeq(s, 1, Len(p)) = p

\* str.find: the index (from 1) of the first occurrence of p, 0 if none
RECURSIVE FindFrom(_, _, _)
FindFrom(s, p, i) ==
    IF i + Len(p) - 1 > Len(s) THEN 0
    ELSE IF SubSeq(s, i, i + Len(p) - 1) = p THEN i
    ELSE FindFrom(s, p, i + 1)

Find(s, p) == FindFrom(s, p, 1)
Contains(s, p) == Find(s, p) # 0

\* str.replace(old, new): left to right, non-overlapping
RECURSIVE Replace(_, _, _)
Replace(s, old, new) ==
    LET i == Find(s, old)
    IN  IF i = 0 THEN s
        ELSE SubSeq(s, 1, i - 1) \o new \o Replace(From(s, i + Len(old)), old, new)

IsSpace(c) == c = " "

RECURSIVE LStrip(_)
LStrip(s) == IF Len(s) > 0 /\ IsSpace(Char(s, 1)) THEN LStrip(From(s, 2)) ELSE s

RECURSIVE RStrip(_)
RStrip(s) ==
    IF Len(s) > 0 /\ IsSpace(Char(s, Len(s))) THEN RStrip(SubSeq(s, 1, Len(s) - 1)) ELSE s

Strip(s) == RStrip(LStrip(s))

UpperCase == "ABCDEFGHIJKLMNOPQRSTUVWXYZ"
LowerCase == "abcdefghijklmnopqrstuvwxyz"

LowerChar(c) ==
    LET i == Find(UpperCase, c) IN IF i = 0 THEN c ELSE Char(LowerCase, i)

RECURSIVE Lower(_)
Lower(s) == IF Len(s) = 0 THEN s ELSE LowerChar(Char(s, 1)) \o Lower(From(s, 2))

\* str.split(sep) for a one-character separator: keeps empty pieces
RECURSIVE SplitOn(_, _)
SplitOn(s, sep) ==
    LET i == Find(s, sep)
    IN  IF i = 0 THEN <<s>>
        ELSE <<SubSeq(s, 1, i - 1)>> \o SplitOn(From(s, i + 1), sep)

\* str.split(): on runs of whitespace, no empty pieces
RECURSIVE Split(_)
Split(s) ==
    LET t == LStrip(s)
        i == Find(t, " ")
    IN  IF Len(t) = 0 THEN <<>>
        ELSE IF i = 0 THEN <<t>>
        ELSE <<SubSeq(t, 1, i - 1)>> \o Split(From(t, i + 1))

(***************************************************************************)
(* Numbers in text.                                                        *)
(***************************************************************************)
Digits == "0123456789"
IsDigit(c) == Len(c) = 1 /\ Contains(Digits, c)
DigitVal(c) == Find(Digits, c) - 1
IsSign(c) == c = "-" \/ c = "+"

\* how many digits s has from position i on
RECURSIVE DigitRun(_, _)
DigitRun(s, i) ==
    IF i <= Len(s) /\ IsDigit(Char(s, i)) THEN 1 + DigitRun(s, i + 1) ELSE 0

RECURSIVE DigitsVal(_)
DigitsVal(s) ==
    IF Len(s) = 0 THEN 0
    ELSE 10 * DigitsVal(SubSeq(s, 1, Len(s) - 1)) + DigitVal(Char(s, Len(s)))

\* the start of a number: an optional sign, digits, an optional point and
\* the digits after it.  i: where the digits start, k: how many there are,
\* dot: a point follows them, m: how many digits follow the point
MantissaAt(s, i, k) ==
    LET dot == i + k <= Len(s) /\ Char(s, i + k) = "."
    IN  [i |-> i, k |-> k, dot |-> dot, m |-> IF dot THEN DigitRun(s, i + k + 1) ELSE 0]

SignEnd(s) == IF Len(s) >= 1 /\ IsSign(Char(s, 1)) THEN 2 ELSE 1

Mantissa(s) == MantissaAt(s, SignEnd(s), DigitRun(s, SignEnd(s)))

\* the exponent from position e on: j where its digits start, x how many
ExponentAt(s, e, isE) ==
    [isE |-> isE,
     j |-> IF isE /\ e + 1 <= Len(s) /\ IsSign(Char(s, e + 1)) THEN e + 2 ELSE e + 1,
     neg |-> isE /\ e + 1 <= Len(s) /\ Char(s, e + 1) = "-"]

Exponent(s, e) ==
    ExponentAt(s, e, 1 < e /\ e <= Len(s) /\ (Char(s, e) = "e" \/ Char(s, e) = "E"))

\* where the match ends, given the end of the mantissa and the exponent
MatchEnd(s, mant, ex) ==
    IF mant = 0 THEN 0
    ELSE IF ex.isE /\ DigitRun(s, ex.j) >= 1 THEN ex.j + DigitRun(s, ex.j) - 1
    ELSE mant

MantissaEnd(n) ==
    IF n.dot /\ n.m >= 1 THEN n.i + n.k + n.m
    ELSE IF n.k >= 1 THEN n.i + n.k - 1
    ELSE 0

MatchFrom(s, mant) == MatchEnd(s, mant, Exponent(s, mant + 1))

\* re.match(r"[-+]?\d*\.?\d+(?:[eE][-+]?\d+)?", s): the length of the match at
\* the start of s, 0 when there is none (a match is never empty)
NumberMatch(s) == MatchFrom(s, MantissaEnd(Mantissa(s)))

Scaled(mant, x, negative) ==
    IF negative THEN RDiv(mant, R(Pow10(x))) ELSE RMul(mant, R(Pow10(x)))

ValueFrom(s, n, ex) ==
    Scaled(RAdd(R(DigitsVal(SubSeq(s, n.i, n.i + n.k - 1))),
                Rat(IF n.dot THEN DigitsVal(SubSeq(s, n.i + n.k + 1, n.i + n.k + n.m))
                    ELSE 0,
                    Pow10(n.m))),
           IF ex.isE THEN DigitsVal(From(s, ex.j)) ELSE 0,
           ex.neg)

UnsignedValue(s, n) ==
    ValueFrom(s, n, Exponent(s, IF n.dot THEN n.i + n.k + 1 + n.m ELSE n.i + n.k))

\* float(s) of a text the expression above matched completely
NumberValue(s) ==
    IF Len(s) >= 1 /\ Char(s, 1) = "-" THEN RNeg(UnsignedValue(s, Mantissa(s)))
    ELSE UnsignedValue(s, Mantissa(s))

(***************************************************************************)
(* Parser.__init__ and CSS.__init__: the viewport context, the dash state. *)
(***************************************************************************)
None == <<>>

\* machine_width, machine_depth of the active extruder stack
MachineSizes == {<<200, 100>>, <<100, 200>>, <<150, 150>>}
DefaultMachine == <<200, 100>>

\* meshfix_maximum_resolution of the active extruder stack
DefaultResolution == Rat(1, 2)

ParserInit(meshfix_maximum_resolution, machine_width, machine_depth) ==
    /\ resolution = meshfix_maximum_resolution
    /\ viewport_x = RZero
    /\ viewport_y = RZero
    /\ viewport_w = R(machine_width)
    /\ viewport_h = R(machine_depth)
    /\ image_w = R(machine_width)
    /\ image_h = R(machine_depth)
    /\ unit_w = RDiv(R(machine_width), R(machine_width))
    /\ unit_h = RDiv(R(machine_depth), R(machine_depth))
    /\ dasharray = <<>>
    /\ dasharray_offset = RZero
    /\ dasharray_length = RZero
    /\ css_dasharray = <<>>
    /\ css_dasharray_length = RZero

(***************************************************************************)
(* convert_length: a CSS dimension in millimetres.                         *)
(***************************************************************************)
Inch == Rat(254, 10)

\* line 195: what follows the number, trimmed, in lower case
UnitAsWritten(dimension, len) == Strip(From(dimension, len + 1))

UnitOf(dimension, len) == Lower(Strip(From(dimension, len + 1)))

LengthOf(number, unit, vertical, parent_size) ==
    IF unit = "mm" THEN number
    ELSE IF unit = "px" THEN RMul(RDiv(number, R(96)), Inch)
    ELSE IF unit = "cm" THEN RMul(number, R(10))
    ELSE IF unit = "q" THEN RDiv(number, R(4))
    ELSE IF unit = "in" THEN RMul(number, Inch)
    ELSE IF unit = "pc" THEN RMul(RDiv(RMul(number, R(12)), R(72)), Inch)
    ELSE IF unit = "pt" THEN RMul(RDiv(number, R(72)), Inch)
    ELSE IF unit = "%" THEN
        IF parent_size = None
        THEN RMul(RDiv(number, R(100)), IF vertical THEN image_h ELSE image_w)
        ELSE RMul(RDiv(number, R(100)), parent_size)
    ELSE IF unit = "vh" \/ unit = "vb" THEN RMul(RDiv(number, R(100)), image_w)
    ELSE IF unit = "vw" \/ unit = "vi" THEN RMul(RDiv(number, R(100)), image_h)
    ELSE IF unit = "vmin" THEN RMul(RDiv(number, R(100)), RMin(image_w, image_h))
    ELSE IF unit = "vmax" THEN RMul(RDiv(number, R(100)), RMax(image_w, image_h))
    ELSE IF vertical THEN RMul(number, unit_h)
    ELSE RMul(number, unit_w)

convert_length(dimension, vertical, parent_size) ==
    IF NumberMatch(dimension) = 0 THEN RZero
    ELSE LengthOf(NumberValue(SubSeq(dimension, 1, NumberMatch(dimension))),
                  UnitOf(dimension, NumberMatch(dimension)), vertical, parent_size)

CSS_LengthOf(number, unit, vertical, parent_size) ==
    IF unit = "mm" THEN number
    ELSE IF unit = "px" THEN RMul(RDiv(number, R(96)), Inch)
    ELSE IF unit = "cm" THEN RMul(number, R(10))
    ELSE IF unit = "q" THEN RDiv(number, R(4))
    ELSE IF unit = "in" THEN RMul(number, Inch)
    ELSE IF unit = "pc" THEN RMul(RDiv(RMul(number, R(12)), R(72)), Inch)
    ELSE IF unit = "pt" THEN RMul(RDiv(number, R(72)), Inch)
    ELSE IF unit = "%" THEN
        IF parent_size = None
        THEN RMul(RDiv(number, R(100)), IF vertical THEN image_h ELSE image_w)
        ELSE RMul(RDiv(number, R(100)), parent_size)
    ELSE IF unit = "vh" \/ unit = "vb" THEN RMul(RDiv(number, R(100)), image_w)
    ELSE IF unit = "vw" \/ unit = "vi" THEN RMul(RDiv(number, R(100)), image_h)
    ELSE IF unit = "vmin" THEN RMul(RDiv(number, R(100)), RMin(image_w, image_h))
    ELSE IF unit = "vmax" THEN RMul(RDiv(number, R(100)), RMax(image_w, image_h))
    ELSE IF vertical THEN RMul(number, unit_h)
    ELSE RMul(number, unit_w)

CSS_convert_length(dimension, vertical, parent_size) ==
    IF NumberMatch(dimension) = 0 THEN RZero
    ELSE CSS_LengthOf(NumberValue(SubSeq(dimension, 1, NumberMatch(dimension))),
                  UnitOf(dimension, NumberMatch(dimension)), vertical, parent_size)

(***************************************************************************)
(* The length resolver called on literals.  Each literal is written from a *)
(* number and a unit whose meaning the caller knows: n and unit record     *)
(* what was written, the resolver sees the text alone.                     *)
(***************************************************************************)
\* <<text, the number it denotes>>
NumberTexts ==
    { <<"0", R(0)>>, <<"1", R(1)>>, <<"96", R(96)>>, <<"50", R(50)>>, <<"-2", R(-2)>>,
      <<"+3", R(3)>>, <<".5", Rat(1, 2)>>, <<"2.5", Rat(5, 2)>>, <<"1e1", R(10)>>,
      <<"25E-1", Rat(5, 2)>> }

\* <<text, the unit it spells>>
UnitTexts ==
    { <<"mm", "mm">>, <<"MM", "mm">>, <<" Mm", "mm">>, <<"cm", "cm">>, <<"Cm", "cm">>,
      <<"Q", "q">>, <<"q", "q">>, <<"in", "in">>, <<"IN", "in">>, <<"pc", "pc">>,
      <<"Pc", "pc">>, <<"pt", "pt">>, <<"PT", "pt">>, <<"px", "px">>, <<"pX", "px">>,
      <<"%", "%">>, <<"vw", "vw">>, <<"VW", "vw">>, <<"vi", "vi">>, <<"vh", "vh">>,
      <<"Vh", "vh">>, <<"vb", "vb">>, <<"vmin", "vmin">>, <<"vmax", "vmax">>,
      <<"", "">>, <<"em", "em">> }

\* literals that do not start with a number
NonNumberTexts == {"", "mm", "abc", "-", ".", "+", "e5", "px5", " 5mm", "-mm", "+.e1"}

ParentSizes == {None, R(200), R(40)}

LengthCalls ==
    { [dimension |-> nt[1] \o ut[1], n |-> nt[2], unit |-> ut[2], numeric |-> TRUE,
       vertical |-> v, parent_size |-> p] :
        nt \in NumberTexts, ut \in UnitTexts, v \in BOOLEAN, p \in ParentSizes }
    \cup
    { [dimension |-> t, n |-> RZero, unit |-> "", numeric |-> FALSE,
       vertical |-> v, parent_size |-> p] :
        t \in NonNumberTexts, v \in BOOLEAN, p \in ParentSizes }

InitLength ==
    /\ \E m \in MachineSizes : ParserInit(DefaultResolution, m[1], m[2])
    /\ tree = <<>>
    /\ op = "call"
    /\ args \in LengthCalls
    /\ ret = <<>>
    /\ out = <<>>

ParserConvertLength ==
    /\ op = "call"
    /\ op' = "Parser.convert_length"
    /\ ret' = convert_length(args.dimension, args.vertical, args.parent_size)
    /\ UNCHANGED <<parserVars, cssVars, tree, args, out>>

CSSConvertLength ==
    /\ op = "call"
    /\ op' = "CSS.convert_length"
    /\ ret' = CSS_convert_length(args.dimension, args.vertical, args.parent_size)
    /\ UNCHANGED <<parserVars, cssVars, tree, args, out>>

NextLength == ParserConvertLength \/ CSSConvertLength

SpecLength == InitLength /\ [][NextLength]_vars

LengthCalled == op \in {"Parser.convert_length", "CSS.convert_length"}

\* the table of absolute units, in millimetres
AbsoluteUnits == {"mm", "cm", "q", "in", "pc", "pt", "px"}

AbsoluteMm(unit, n) ==
    CASE unit = "mm" -> n
      [] unit = "cm" -> RMul(R(10), n)
      [] unit = "q" -> Rat(n[1], 4 * n[2])
      [] unit = "in" -> RMul(Rat(127, 5), n)
      [] unit = "pc" -> RMul(Rat(127, 30), n)
      [] unit = "pt" -> RMul(Rat(127, 360), n)
      [] unit = "px" -> RMul(Rat(127, 480), n)

\* C1: a number n with an absolute unit, in any letter case, resolves to the
\* millimetres of the fixed table; "96px" and "1in" both give 25.4; a literal
\* that does not start with a number resolves to 0.
C1_AbsoluteUnits ==
    LengthCalled =>
        /\ (args.numeric /\ args.unit \in AbsoluteUnits) =>
               ret = AbsoluteMm(args.unit, args.n)
        /\ args.dimension \in {"96px", "1in"} => ret = <<127, 5>>
        /\ ~args.numeric => ret = RZero

C1_Witness ==
    /\ op = "CSS.convert_length"
    /\ args.dimension = "96pX"
    /\ ret = <<127, 5>>

ViewportUnits == {"%", "vw", "vi", "vh", "vb", "vmin", "vmax"}

\* what a viewport-relative unit is measured against when no parent size is given
ViewportBasis(unit, vertical) ==
    CASE unit = "%" -> IF vertical THEN image_h ELSE image_w
      [] unit \in {"vw", "vi"} -> image_w
      [] unit \in {"vh", "vb"} -> image_h
      [] unit = "vmin" -> RMin(image_w, image_h)
      [] unit = "vmax" -> RMax(image_w, image_h)

\* C2: a number n with unit %, vw, vi, vh, vb, vmin or vmax resolves to
\* n/100 of parent_size when parent_size is given, and otherwise to n/100 of
\* the image width (%, horizontal; vw, vi) or the image height (%, vertical;
\* vh, vb).
C2_ViewportUnits ==
    (LengthCalled /\ args.numeric /\ args.unit \in ViewportUnits) =>
        ret = RMul(RDiv(args.n, R(100)),
                   IF args.parent_size = None
                   THEN ViewportBasis(args.unit, args.vertical)
                   ELSE args.parent_size)

(***************************************************************************)
(* Transformation matrices: 3x3, rows of rationals.                        *)
(***************************************************************************)
Identity == <<<<R(1), R(0), R(0)>>, <<R(0), R(1), R(0)>>, <<R(0), R(0), R(1)>>>>

\* numpy.matmul of two 3x3 matrices
MatMul(a, b) ==
    [i \in 1..3 |->
        [j \in 1..3 |->
            RAdd(RAdd(RMul(a[i][1], b[1][j]), RMul(a[i][2], b[2][j])),
                 RMul(a[i][3], b[3][j]))]]

\* the x and y that numpy.matmul(transformation, (x, y, 1)) returns
apply_transformation(x, y, transformation) ==
    [i \in 1..2 |->
        RAdd(RAdd(RMul(transformation[i][1], x), RMul(transformation[i][2], y)),
             transformation[i][3])]

\* math.cos, math.sin and math.tan of an angle in degrees, for the angles
\* where they are rational
Turn(deg) == ((deg[1] % 360) + 360) % 360

CosDeg(deg) ==
    CASE deg[2] = 1 /\ Turn(deg) = 0 -> R(1)
      [] deg[2] = 1 /\ Turn(deg) = 90 -> R(0)
      [] deg[2] = 1 /\ Turn(deg) = 180 -> R(-1)
      [] deg[2] = 1 /\ Turn(deg) = 270 -> R(0)

SinDeg(deg) ==
    CASE deg[2] = 1 /\ Turn(deg) = 0 -> R(0)
      [] deg[2] = 1 /\ Turn(deg) = 90 -> R(1)
      [] deg[2] = 1 /\ Turn(deg) = 180 -> R(0)
      [] deg[2] = 1 /\ Turn(deg) = 270 -> R(-1)

TanDeg(deg) ==
    CASE deg[2] = 1 /\ Turn(deg) % 180 = 0 -> R(0)
      [] deg[2] = 1 /\ Turn(deg) % 180 = 45 -> R(1)
      [] deg[2] = 1 /\ Turn(deg) % 180 = 135 -> R(-1)

(***************************************************************************)
(* convert_transform: a transform attribute compiled to one matrix.        *)
(***************************************************************************)
\* float(s) succeeds: sign, digits with an optional point, optional exponent
\* (the other spellings float() takes, inf, nan and digit underscores, are
\* not written in the inputs here)
FloatEnd(s, n, e, ex) ==
    /\ n.k + n.m >= 1
    /\ IF ex.isE
       THEN DigitRun(s, ex.j) >= 1 /\ ex.j + DigitRun(s, ex.j) - 1 = Len(s)
       ELSE e - 1 = Len(s)

FloatFrom(s, n, e) == FloatEnd(s, n, e, Exponent(s, e))

IsFloat(s) ==
    FloatFrom(s, Mantissa(s),
              IF Mantissa(s).dot
              THEN Mantissa(s).i + Mantissa(s).k + 1 + Mantissa(s).m
              ELSE Mantissa(s).i + Mantissa(s).k)

\* float(s) for a text float() takes ("5." reads as "5")
Float(s) ==
    LET d == Find(s, ".")
        bare == d # 0 /\ (d = Len(s) \/ ~IsDigit(Char(s, d + 1)))
    IN  NumberValue(IF bare THEN SubSeq(s, 1, d - 1) \o From(s, d + 1) ELSE s)

\* while "  " in s: s = s.replace("  ", " ")
RECURSIVE CollapseSpaces(_)
CollapseSpaces(s) ==
    IF Contains(s, "  ") THEN CollapseSpaces(Replace(s, "  ", " ")) ELSE s

\* lines 315-320: the commands of a transform attribute
TransformCommands(transform) ==
    Split(Replace(Replace(CollapseSpaces(Replace(transform, ")", ") ")), ", ", ","),
                  " ,", ","))

Mat(a, b, c, d, e, f) == <<<<a, c, e>>, <<b, d, f>>, <<R(0), R(0), R(1)>>>>

Raised == [raised |-> TRUE, value |-> <<>>]
Returned(v) == [raised |-> FALSE, value |-> v]

\* transformation = numpy.matmul(transformation, m)
PreMultiply(transformation, m) == MatMul(m, transformation)

PostMultiply(transformation, m) == MatMul(transformation, m)

\* lines 341-395: the matrix after one function, given its name and numbers;
\* a function that is not valid leaves the matrix as it is
TransformFunction(transformation, name, values) ==
    LET n == Len(values)
        post(m) == PostMultiply(transformation, m)
    IN  IF name = "matrix" THEN
            IF n # 6 THEN transformation
            ELSE post(Mat(values[1], values[2], values[3], values[4], values[5], values[6]))
        ELSE IF name = "translate" THEN
            IF n = 1 THEN post(Mat(R(1), R(0), R(0), R(1), values[1], R(0)))
            ELSE IF n # 2 THEN transformation
            ELSE post(Mat(R(1), R(0), R(0), R(1), values[1], values[2]))
        ELSE IF name = "translatex" THEN
            IF n # 1 THEN transformation
            ELSE post(Mat(R(1), R(0), R(0), R(1), values[1], R(0)))
        ELSE IF name = "translatey" THEN
            IF n # 1 THEN transformation
            ELSE post(Mat(R(1), R(0), R(0), R(1), R(0), values[1]))
        ELSE IF name = "scale" THEN
            IF n = 1 THEN post(Mat(values[1], R(0), R(0), values[1], R(0), R(0)))
            ELSE IF n # 2 THEN transformation
            ELSE post(Mat(values[1], R(0), R(0), values[2], R(0), R(0)))
        ELSE IF name = "scalex" THEN
            IF n # 1 THEN transformation
            ELSE post(Mat(values[1], R(0), R(0), R(1), R(0), R(0)))
        ELSE IF name = "scaley" THEN
            IF n # 1 THEN transformation
            ELSE post(Mat(R(1), R(0), R(0), values[1], R(0), R(0)))
        ELSE IF name = "rotate" \/ name = "rotatez" THEN
            IF n # 1 /\ n # 3 THEN transformation
            ELSE LET cx == IF n = 1 THEN R(0) ELSE values[2]
                     cy == IF n = 1 THEN R(0) ELSE values[3]
                     c == CosDeg(values[1])
                     sn == SinDeg(values[1])
                 IN  PostMultiply(
                         PostMultiply(post(Mat(R(1), R(0), R(0), R(1), cx, cy)),
                                      Mat(c, sn, RNeg(sn), c, R(0), R(0))),
                         Mat(R(1), R(0), R(0), R(1), RNeg(cx), RNeg(cy)))
        ELSE IF name = "skew" THEN
            IF n # 2 THEN transformation
            ELSE post(Mat(R(1), TanDeg(values[2]), TanDeg(values[1]), R(1), R(0), R(0)))
        ELSE IF name = "skewx" THEN
            IF n # 1 THEN transformation
            ELSE post(Mat(R(1), R(0), TanDeg(values[1]), R(1), R(0), R(0)))
        ELSE IF name = "skewy" THEN
            IF n # 1 THEN transformation
            ELSE post(Mat(R(1), TanDeg(values[1]), R(0), R(1), R(0), R(0)))
        ELSE transformation

\* lines 322-339 and then the function: one command of the loop; float() of
\* an argument that is not a number raises ValueError out of convert_transform
TransformCommand(transformation, cmd) ==
    LET command == Strip(cmd)
        name_and_value == SplitOn(command, "(")
        name == Lower(Strip(name_and_value[1]))
        value == SubSeq(name_and_value[2], 1, Find(name_and_value[2], ")") - 1)
        texts == Split(Replace(value, ",", " "))
    IN  IF command = "none" THEN Returned(transformation)
        ELSE IF command = "initial" THEN Returned(Identity)
        ELSE IF ~Contains(command, "(") THEN Returned(transformation)
        ELSE IF Len(name_and_value) # 2 THEN Returned(transformation)
        ELSE IF ~Contains(name_and_value[2], ")") THEN Returned(transformation)
        ELSE IF \E i \in 1..Len(texts) : ~IsFloat(texts[i]) THEN Raised
        ELSE Returned(TransformFunction(transformation, name,
                                        [i \in 1..Len(texts) |-> Float(texts[i])]))

RECURSIVE TransformLoop(_, _)
TransformLoop(transformation, commands) ==
    IF Len(commands) = 0 THEN Returned(transformation)
    ELSE LET step == TransformCommand(transformation, Head(commands))
         IN  IF step.raised THEN Raised
             ELSE TransformLoop(step.value, Tail(commands))

convert_transform(transform) == TransformLoop(Identity, TransformCommands(transform))

(***************************************************************************)
(* The transform compiler called on transform attributes.  An attribute is *)
(* written as a list of function calls; for each call the writer knows     *)
(* whether it is well formed and, if so, the matrix it stands for.         *)
(***************************************************************************)
MaxFunctions == 2

IMat(a, b, c, d, e, f) == Mat(R(a), R(b), R(c), R(d), R(e), R(f))

\* kind "ok": a well-formed call and its matrix
WellFormedCalls ==
    { [text |-> "translate(10,5)", kind |-> "ok", m |-> IMat(1, 0, 0, 1, 10, 5)],
      [text |-> "scale(2)", kind |-> "ok", m |-> IMat(2, 0, 0, 2, 0, 0)],
      [text |-> "translate(3)", kind |-> "ok", m |-> IMat(1, 0, 0, 1, 3, 0)],
      [text |-> "Scale(2, -3)", kind |-> "ok", m |-> IMat(2, 0, 0, -3, 0, 0)],
      [text |-> "rotate(90)", kind |-> "ok", m |-> IMat(0, 1, -1, 0, 0, 0)],
      [text |-> "rotate(90,1,2)", kind |-> "ok", m |-> IMat(0, 1, -1, 0, 3, 1)],
      [text |-> "matrix(1,2,3,4,5,6)", kind |-> "ok", m |-> IMat(1, 2, 3, 4, 5, 6)],
      [text |-> "skewX(45)", kind |-> "ok", m |-> IMat(1, 0, 1, 1, 0, 0)],
      [text |-> "translateY(.5)", kind |-> "ok",
       m |-> Mat(R(1), R(0), R(0), R(1), R(0), Rat(1, 2))] }

\* malformed calls: a wrong argument count ("count"), a parenthesis that is
\* not closed ("unclosed"), a function name that does not exist ("unknown"),
\* an argument of a known function that is not a number ("text")
MalformedCalls ==
    { [text |-> "translate(1,2,3)", kind |-> "count", m |-> Identity],
      [text |-> "matrix(1,2)", kind |-> "count", m |-> Identity],
      [text |-> "scale()", kind |-> "count", m |-> Identity],
      [text |-> "scale(2", kind |-> "unclosed", m |-> Identity],
      [text |-> "foo(1)", kind |-> "unknown", m |-> Identity],
      [text |-> "foo(x)", kind |-> "unknown", m |-> Identity],
      [text |-> "translate(a,b)", kind |-> "text", m |-> Identity] }

TransformItems == WellFormedCalls \cup MalformedCalls

\* between two calls: a space, or nothing (func(0.5)fanc(2))
Separators == {" ", ""}

RECURSIVE JoinTexts(_, _)
JoinTexts(items, sep) ==
    IF Len(items) = 0 THEN ""
    ELSE IF Len(items) = 1 THEN items[1].text
    ELSE items[1].text \o sep \o JoinTexts(Tail(items), sep)

TransformCalls ==
    { [transform |-> JoinTexts(items, sep), items |-> items, sep |-> sep] :
        items \in UNION { [1..k -> TransformItems] : k \in 0..MaxFunctions },
        sep \in Separators }

InitTransform ==
    /\ \E m \in MachineSizes : ParserInit(DefaultResolution, m[1], m[2])
    /\ tree = <<>>
    /\ op = "call"
    /\ args \in TransformCalls
    /\ ret = <<>>
    /\ out = <<>>

ConvertTransform ==
    /\ op = "call"
    /\ op' = "convert_transform"
    /\ ret' = convert_transform(args.transform)
    /\ UNCHANGED <<parserVars, cssVars, tree, args, out>>

NextTransform == ConvertTransform

SpecTransform == InitTransform /\ [][NextTransform]_vars

KindsOf(items) == {items[i].kind : i \in 1..Len(items)}

\* M1 * M2 * ... * Mn of the calls' matrices
RECURSIVE Product(_)
Product(items) ==
    IF Len(items) = 0 THEN Identity
    ELSE MatMul(items[1].m, Product(Tail(items)))

RECURSIVE WellFormedOnly(_)
WellFormedOnly(items) ==
    IF Len(items) = 0 THEN <<>>
    ELSE IF items[1].kind = "ok" THEN <<items[1]>> \o WellFormedOnly(Tail(items))
    ELSE WellFormedOnly(Tail(items))

\* C4: every malformed call (wrong argument count, unclosed parenthesis,
\* unknown function name) is skipped on its own: the matrix returned for a
\* list of calls written with spaces between them is the matrix of its
\* well-formed calls, wherever the malformed ones stand.
C4_MalformedSkipped ==
    (/\ op = "convert_transform"
     /\ args.sep = " "
     /\ KindsOf(args.items) \subseteq {"ok", "count", "unclosed", "unknown"}) =>
        /\ ~ret.raised
        /\ ret.value = Product(WellFormedOnly(args.items))

\* C5: convert_transform never raises, whatever the transform string.
C5_NeverRaises == op = "convert_transform" => ~ret.raised

(***************************************************************************)
(* Parser.convert_css: the tracked properties found in a piece of CSS.     *)
(* Dictionaries are functions from the keys they hold.                     *)
(***************************************************************************)
EmptyDict == [k \in {} |-> ""]

\* dict.update
Update(d, e) ==
    [k \in DOMAIN d \cup DOMAIN e |-> IF k \in DOMAIN e THEN e[k] ELSE d[k]]

Put(d, key, v) == [k \in DOMAIN d \cup {key} |-> IF k = key THEN v ELSE d[k]]

\* the unit alternation of the validation expressions (case-sensitive)
CssUnits ==
    {"cap", "ch", "em", "ex", "ic", "lh", "rem", "rlh", "vh", "vw", "vi", "vb", "vmin",
     "vmax", "px", "cm", "mm", "Q", "in", "pc", "pt", "%"}

\* re.fullmatch of the number expression
is_float(s) == Len(s) > 0 /\ NumberMatch(s) = Len(s)

\* re.fullmatch of a number and an optional unit
is_length(s) ==
    LET n == NumberMatch(s)
    IN  n > 0 /\ (n = Len(s) \/ From(s, n + 1) \in CssUnits)

\* re.fullmatch of (number unit? [,\s])* number? unit?
RECURSIVE is_list_of_lengths(_)
is_list_of_lengths(s) ==
    LET n == NumberMatch(s)
        rest == From(s, n + 1)
        isSep(c) == c = "," \/ IsSpace(c)
    IN  \/ s = "" \/ s \in CssUnits
        \/ n > 0 /\ (rest = "" \/ rest \in CssUnits)
        \/ /\ n > 0
           /\ \/ Len(rest) >= 1 /\ isSep(Char(rest, 1)) /\ is_list_of_lengths(From(rest, 2))
              \/ \E u \in CssUnits :
                     /\ StartsWith(rest, u)
                     /\ Len(rest) > Len(u)
                     /\ isSep(Char(rest, Len(u) + 1))
                     /\ is_list_of_lengths(From(rest, Len(u) + 2))

AllIn(parts, allowed) == \A i \in 1..Len(parts) : parts[i] \in allowed

\* attribute_validate, in the order of the dictionary
TrackedAttributes ==
    <<"font-family", "font-weight", "font-size", "font-style", "stroke-dasharray",
      "stroke-dashoffset", "stroke-width", "text-decoration", "text-decoration-line",
      "text-decoration-style", "text-transform", "transform">>

attribute_validate(attribute, s) ==
    CASE attribute = "font-family" -> TRUE
      [] attribute = "font-weight" -> is_float(s)
      [] attribute = "font-size" -> is_length(s)
      [] attribute = "font-style" -> s \in {"normal", "italic", "oblique", "initial"}
      [] attribute = "stroke-dasharray" -> is_list_of_lengths(s)
      [] attribute = "stroke-dashoffset" -> is_length(s)
      [] attribute = "stroke-width" -> is_length(s)
      [] attribute = "text-decoration" -> TRUE
      [] attribute = "text-decoration-line" ->
             AllIn(Split(s), {"none", "overline", "underline", "line-through", "initial"})
      [] attribute = "text-decoration-style" ->
             s \in {"solid", "double", "dotted", "dashed", "wavy", "initial"}
      [] attribute = "text-transform" ->
             s \in {"none", "capitalize", "uppercase", "lowercase", "initial"}
      [] attribute = "transform" -> TRUE

\* lines 141-148: the loop over the attributes for one piece, from attribute
\* number i on; the loop variable piece is overwritten when an attribute matches
RECURSIVE CssPiece(_, _, _)
CssPiece(result, piece, i) ==
    IF i > Len(TrackedAttributes) THEN result
    ELSE LET attribute == TrackedAttributes[i]
             value == Strip(From(piece, Len(attribute) + 2))
         IN  IF StartsWith(piece, attribute \o ":")
             THEN CssPiece(IF attribute_validate(attribute, value)
                           THEN Put(result, attribute, value)
                           ELSE result,
                           value, i + 1)
             ELSE CssPiece(result, piece, i + 1)

RECURSIVE CssPieces(_, _)
CssPieces(result, pieces) ==
    IF Len(pieces) = 0 THEN result
    ELSE CssPieces(CssPiece(result, Strip(Head(pieces)), 1), Tail(pieces))

convert_css(css) == CssPieces(EmptyDict, SplitOn(css, ";"))

(***************************************************************************)
(* The element tree and the cascade: Parser.defaults, Parser.inheritance.  *)
(* An element is [tag, attrib, text, children].                            *)
(***************************************************************************)
Namespace == "{http://www.w3.org/2000/svg}"

Element(tag, attrib, text, children) ==
    [tag |-> Namespace \o tag, attrib |-> attrib, text |-> text, children |-> children]

Get(d, key, default) == IF key \in DOMAIN d THEN d[key] ELSE default

Without(d, key) == [k \in DOMAIN d \ {key} |-> d[k]]

\* str(n) of a natural number
RECURSIVE NatStr(_)
NatStr(n) ==
    IF n < 10 THEN Char(Digits, n + 1)
    ELSE NatStr(n \div 10) \o Char(Digits, (n % 10) + 1)

\* the digits after the point of rem/den, for a fraction that terminates
RECURSIVE FractionStr(_, _)
FractionStr(rem, den) ==
    IF rem = 0 THEN ""
    ELSE Char(Digits, ((rem * 10) \div den) + 1) \o FractionStr((rem * 10) % den, den)

\* str(x) of a float x
FloatStr(x) ==
    LET a == Abs(x[1])
        frac == FractionStr(a % x[2], x[2])
    IN  (IF x[1] < 0 THEN "-" ELSE "") \o NatStr(a \div x[2]) \o "."
            \o (IF frac = "" THEN "0" ELSE frac)

\* wall_line_width_0 of the active extruder stack
WallLineWidth == "0.4"

\* Parser.defaults
defaults(element) ==
    LET a1 == IF "stroke-width" \in DOMAIN element.attrib THEN element.attrib
              ELSE Put(element.attrib, "stroke-width", WallLineWidth)
        a2 == IF "transform" \in DOMAIN a1 THEN a1 ELSE Put(a1, "transform", "")
    IN  [element EXCEPT !.attrib = a2]

\* tracked_css of inheritance, with the defaults
tracked_css ==
    [ k \in {"font-family", "font-size", "font-style", "font-weight", "stroke-dasharray",
             "stroke-width", "text-decoration", "text-decoration-line",
             "text-decoration-style", "text-transform", "transform"} |->
        CASE k = "font-family" -> "serif"
          [] k = "font-size" -> "12pt"
          [] k = "font-style" -> "normal"
          [] k = "font-weight" -> "400"
          [] k = "stroke-dasharray" -> ""
          [] k = "stroke-width" -> "0.35mm"
          [] k = "text-decoration" -> ""
          [] k = "text-decoration-line" -> ""
          [] k = "text-decoration-style" -> "solid"
          [] k = "text-transform" -> "none"
          [] k = "transform" -> "" ]

\* lines 851-861: the CSS entries that have an SVG attribute
AttributeCss(attrib) ==
    LET c1 == IF "transform" \in DOMAIN attrib
              THEN Put(EmptyDict, "transform", attrib["transform"]) ELSE EmptyDict
        sw == Strip(Get(attrib, "stroke-width", ""))
        c2 == IF "stroke-width" \in DOMAIN attrib /\ IsFloat(sw)
              THEN Put(c1, "stroke-width", FloatStr(Float(sw))) ELSE c1
        c3 == IF "stroke-dasharray" \in DOMAIN attrib
              THEN Put(c2, "stroke-dasharray", attrib["stroke-dasharray"]) ELSE c2
    IN  IF "stroke-dashoffset" \in DOMAIN attrib
        THEN Put(c3, "stroke-dashoffset", attrib["stroke-dashoffset"]) ELSE c3

\* lines 864-867: the <style> children, merged in document order
RECURSIVE StyleElementsCss(_, _)
StyleElementsCss(css, children) ==
    IF Len(children) = 0 THEN css
    ELSE StyleElementsCss(
             IF Lower(Head(children).tag) = Namespace \o "style"
             THEN Update(css, convert_css(Head(children).text)) ELSE css,
             Tail(children))

\* lines 870-873: the style attribute
StyleAttributeCss(css, attrib) ==
    IF "style" \in DOMAIN attrib THEN Update(css, convert_css(attrib["style"])) ELSE css

\* lines 889-891: separate attributes that the CSS does not set are inherited too
TrackedCss(css, attrib) ==
    [k \in DOMAIN css \cup (DOMAIN tracked_css \cap DOMAIN attrib) |->
        IF k \in DOMAIN css THEN css[k] ELSE attrib[k]]

\* line 892: every tracked property is written into the attributes
ResolvedAttrib(css, attrib) ==
    [k \in DOMAIN attrib \cup DOMAIN tracked_css |->
        IF k \in DOMAIN tracked_css THEN Get(css, k, tracked_css[k]) ELSE attrib[k]]

\* lines 896-903: what a child receives from its parent's css
PassOn(css, attrib) ==
    [k \in DOMAIN attrib \cup DOMAIN css |->
        IF k = "transform" /\ k \in DOMAIN css
        THEN css["transform"] \o " " \o Get(attrib, "transform", "")
        ELSE IF k \in DOMAIN attrib THEN attrib[k]
        ELSE css[k]]

\* Parser.inheritance
RECURSIVE inheritance(_)
inheritance(element) ==
    LET css0 == StyleAttributeCss(
                    StyleElementsCss(AttributeCss(element.attrib), element.children),
                    element.attrib)
        attrib == Without(element.attrib, "style")
        css == TrackedCss(css0, attrib)
    IN  [element EXCEPT
            !.attrib = ResolvedAttrib(css, attrib),
            !.children =
                [i \in 1..Len(element.children) |->
                    inheritance([element.children[i] EXCEPT
                                    !.attrib = PassOn(css, element.children[i].attrib)])]]

(***************************************************************************)
(* The cascade run on documents.  A document is a root <svg> holding a <g> *)
(* holding a <path>; the root and the <g> each declare one presentation     *)
(* property in up to three places: as an attribute, in a child <style>     *)
(* block and in the style attribute.                                       *)
(***************************************************************************)
PresentationProperties == {"transform", "stroke-width", "stroke-dasharray", "stroke-dashoffset"}

\* the value written in each place ("attr", "block", "style"), valid or not
DeclaredValue(property, place, validity) ==
    CASE property = "transform" ->
             (CASE place = "attr" -> "scale(2)"
                [] place = "block" -> "translate(1,0)"
                [] place = "style" -> "rotate(90)")
      [] property = "stroke-dasharray" ->
             (CASE place = "attr" -> "1,2"
                [] place = "block" -> IF validity = "valid" THEN "2mm,3mm" ELSE "dashed"
                [] place = "style" -> IF validity = "valid" THEN "4 5" ELSE "dotted")
      [] OTHER ->
             (CASE place = "attr" -> "1"
                [] place = "block" -> IF validity = "valid" THEN "2mm" ELSE "wide"
                [] place = "style" -> IF validity = "valid" THEN "3mm" ELSE "thick")

Validities(property) ==
    IF property = "transform" THEN {"absent", "valid"} ELSE {"absent", "valid", "invalid"}

\* where an element declares its property
Declarations ==
    { [property |-> p, attr |-> a, block |-> b, style |-> st] :
        p \in PresentationProperties, a \in {"absent", "valid"},
        b \in {"absent", "valid", "invalid"}, st \in {"absent", "valid", "invalid"} }
    \ { d \in [property : {"transform"}, attr : {"absent", "valid"},
               block : {"absent", "valid", "invalid"},
               style : {"absent", "valid", "invalid"}] :
          d.block = "invalid" \/ d.style = "invalid" }

DeclaredAttrib(d) ==
    LET a == IF d.attr = "absent" THEN EmptyDict
             ELSE Put(EmptyDict, d.property, DeclaredValue(d.property, "attr", d.attr))
    IN  IF d.style = "absent" THEN a
        ELSE Put(a, "style",
                 "font-weight:700;" \o d.property \o ":"
                     \o DeclaredValue(d.property, "style", d.style))

StyleBlocks(d) ==
    IF d.block = "absent" THEN <<>>
    ELSE <<Element("style", EmptyDict,
                   "font-size:10pt; " \o d.property \o ": "
                       \o DeclaredValue(d.property, "block", d.block),
                   <<>>)>>

PathLeaf == Element("path", Put(Put(EmptyDict, "d", "M0,0 L1,1"), "transform", "translate(1,0)"),
                    "", <<>>)

Document(root, child) ==
    Element("svg", DeclaredAttrib(root), "",
            StyleBlocks(root)
                \o <<Element("g", DeclaredAttrib(child), "", StyleBlocks(child) \o <<PathLeaf>>)>>)

InitCascade ==
    /\ ParserInit(DefaultResolution, DefaultMachine[1], DefaultMachine[2])
    /\ op = "call"
    /\ args \in [root : Declarations, child : Declarations]
    /\ tree = Document(args.root, args.child)
    /\ ret = <<>>
    /\ out = <<>>

\* the reader sets the root's defaults, then runs the cascade
Defaults ==
    /\ op = "call"
    /\ op' = "defaults"
    /\ tree' = defaults(tree)
    /\ UNCHANGED <<parserVars, cssVars, args, ret, out>>

Inheritance ==
    /\ op = "defaults"
    /\ op' = "inheritance"
    /\ tree' = inheritance(tree)
    /\ UNCHANGED <<parserVars, cssVars, args, ret, out>>

NextCascade == Defaults \/ Inheritance

SpecCascade == InitCascade /\ [][NextCascade]_vars

\* the <g> of the document and its <path>
GElement(root) == root.children[Len(root.children)]
PathElement(root) == GElement(root).children[Len(GElement(root).children)]

\* the value the claim's precedence picks among an element's declarations:
\* style attribute, else <style> block, else the attribute (written as given
\* or, for stroke-width, as the float it parses to); <<>> if nothing is declared
Preferred(d) ==
    IF d.style = "valid" THEN {DeclaredValue(d.property, "style", "valid")}
    ELSE IF d.block = "valid" THEN {DeclaredValue(d.property, "block", "valid")}
    ELSE IF d.attr = "valid" THEN
        {DeclaredValue(d.property, "attr", "valid")}
            \cup (IF d.property = "stroke-width" THEN {"1.0"} ELSE {})
    ELSE {}

Declares(d) == Preferred(d) # {}

ResolvedAs(element, d) ==
    /\ d.property \in DOMAIN element.attrib
    /\ element.attrib[d.property] \in Preferred(d)

\* C6: after the cascade, for transform, stroke-width, stroke-dasharray and
\* stroke-dashoffset the resolved value of an element that declares the
\* property is the valid value of its style attribute, else of its <style>
\* block, else its presentation attribute (for the root, and for the <g>
\* and the properties that do not concatenate).
C6_Precedence ==
    op = "inheritance" =>
        /\ Declares(args.root) => ResolvedAs(tree, args.root)
        /\ (Declares(args.child) /\ args.child.property # "transform") =>
               ResolvedAs(GElement(tree), args.child)

TrackedTwelve ==
    {"font-family", "font-size", "font-style", "font-weight", "stroke-dasharray",
     "stroke-dashoffset", "stroke-width", "text-decoration", "text-decoration-line",
     "text-decoration-style", "text-transform", "transform"}

RECURSIVE AllResolved(_)
AllResolved(element) ==
    /\ TrackedTwelve \subseteq DOMAIN element.attrib
    /\ \A i \in 1..Len(element.children) : AllResolved(element.children[i])

\* C7: after inheritance(root) every element of the tree carries a value for
\* every one of the twelve tracked properties.
C7_FullyResolved == op = "inheritance" => AllResolved(tree)

\* the transform an element declares itself: "" if none
OwnTransform(d) ==
    IF d.property # "transform" THEN ""
    ELSE IF d.style = "valid" THEN DeclaredValue("transform", "style", "valid")
    ELSE IF d.block = "valid" THEN DeclaredValue("transform", "block", "valid")
    ELSE IF d.attr = "valid" THEN DeclaredValue("transform", "attr", "valid")
    ELSE ""

\* C8: after inheritance the resolved transform of a non-root element is its
\* parent's resolved transform, a space, and its own declared transform,
\* wherever it declares it (stated for parents whose transform is not empty).
C8_TransformConcatenated ==
    op = "inheritance" =>
        /\ tree.attrib["transform"] # "" =>
               GElement(tree).attrib["transform"] =
                   tree.attrib["transform"] \o " " \o OwnTransform(args.child)
        /\ PathElement(tree).attrib["transform"] =
               GElement(tree).attrib["transform"] \o " " \o "translate(1,0)"

(***************************************************************************)
(* convert_dasharray: a stroke-dasharray value stored as the dash pattern. *)
(***************************************************************************)
RECURSIVE RSum(_)
RSum(lengths) == IF Len(lengths) = 0 THEN RZero ELSE RAdd(Head(lengths), RSum(Tail(lengths)))

\* lines 173-175: a pattern of odd length is doubled, and its total with it
TotalNotDoubled(lengths) ==
    IF Len(lengths) % 2 = 1
    THEN [dasharray |-> lengths \o lengths, dasharray_length |-> RSum(lengths)]
    ELSE [dasharray |-> lengths, dasharray_length |-> RSum(lengths)]

StoredDashes(lengths) ==
    IF Len(lengths) % 2 = 1
    THEN [dasharray |-> lengths \o lengths, dasharray_length |-> RMul(RSum(lengths), R(2))]
    ELSE [dasharray |-> lengths, dasharray_length |-> RSum(lengths)]

\* lines 167-172 of Parser.py: the lengths in millimetres, negative ones left out
RECURSIVE RetainedLengths(_)
RetainedLengths(length_list) ==
    IF Len(length_list) = 0 THEN <<>>
    ELSE LET length_mm == convert_length(Head(length_list), FALSE, None)
         IN  (IF RLt(length_mm, RZero) THEN <<>> ELSE <<length_mm>>)
                 \o RetainedLengths(Tail(length_list))

convert_dasharray(text) == StoredDashes(RetainedLengths(Split(Replace(text, ",", " "))))

\* lines 98-103 of CSS.py
RECURSIVE CSS_RetainedLengths(_)
CSS_RetainedLengths(length_list) ==
    IF Len(length_list) = 0 THEN <<>>
    ELSE LET length_mm == CSS_convert_length(Head(length_list), FALSE, None)
         IN  (IF RLt(length_mm, RZero) THEN <<>> ELSE <<length_mm>>)
                 \o CSS_RetainedLengths(Tail(length_list))

CSS_convert_dasharray(text) ==
    StoredDashes(CSS_RetainedLengths(Split(Replace(text, ",", " "))))

(***************************************************************************)
(* convert_dasharray called on dash arrays written from lengths whose      *)
(* millimetres the writer knows.                                           *)
(***************************************************************************)
MaxDashes == 3

\* <<text, millimetres>> (a bare number is in user units, 1 mm each here)
DashTexts ==
    { <<"2", R(2)>>, <<"3", R(3)>>, <<"4", R(4)>>, <<"1mm", R(1)>>, <<"-1", R(-1)>>,
      <<"0", R(0)>>, <<"1cm", R(10)>>, <<".5", Rat(1, 2)>> }

DashSeparators == {",", " ", ", "}

RECURSIVE JoinDashes(_, _)
JoinDashes(items, sep) ==
    IF Len(items) = 0 THEN ""
    ELSE IF Len(items) = 1 THEN items[1][1]
    ELSE items[1][1] \o sep \o JoinDashes(Tail(items), sep)

\* the millimetres of the items that are not negative
RECURSIVE Retained(_)
Retained(items) ==
    IF Len(items) = 0 THEN <<>>
    ELSE (IF items[1][2][1] < 0 THEN <<>> ELSE <<items[1][2]>>) \o Retained(Tail(items))

DasharrayCalls ==
    { [text |-> JoinDashes(items, sep), retained |-> Retained(items)] :
        items \in UNION { [1..k -> DashTexts] : k \in 0..MaxDashes },
        sep \in DashSeparators }

InitDasharray ==
    /\ ParserInit(DefaultResolution, DefaultMachine[1], DefaultMachine[2])
    /\ tree = <<>>
    /\ op = "call"
    /\ args \in DasharrayCalls
    /\ ret = <<>>
    /\ out = <<>>

ParserConvertDasharray ==
    /\ op = "call"
    /\ op' = "Parser.convert_dasharray"
    /\ dasharray' = convert_dasharray(args.text).dasharray
    /\ dasharray_length' = convert_dasharray(args.text).dasharray_length
    /\ UNCHANGED <<resolution, viewport_x, viewport_y, viewport_w, viewport_h, image_w, image_h,
                   unit_w, unit_h, dasharray_offset, cssVars, tree, args, ret, out>>

CSSConvertDasharray ==
    /\ op = "call"
    /\ op' = "CSS.convert_dasharray"
    /\ css_dasharray' = CSS_convert_dasharray(args.text).dasharray
    /\ css_dasharray_length' = CSS_convert_dasharray(args.text).dasharray_length
    /\ UNCHANGED <<parserVars, tree, args, ret, out>>

NextDasharray == ParserConvertDasharray \/ CSSConvertDasharray

SpecDasharray == InitDasharray /\ [][NextDasharray]_vars

\* the pattern and total that the call stored
StoredPattern == IF op = "CSS.convert_dasharray" THEN css_dasharray ELSE dasharray
StoredLength == IF op = "CSS.convert_dasharray" THEN css_dasharray_length ELSE dasharray_length

\* C9: an odd number of retained lengths is stored repeated twice with the
\* doubled total ([2,3,4] becomes [2,3,4,2,3,4], total 18); an even number is
\* stored unchanged with the sum of its entries.
C9_DashDoubling ==
    op \in {"Parser.convert_dasharray", "CSS.convert_dasharray"} =>
        /\ Len(args.retained) % 2 = 1 =>
               /\ StoredPattern = args.retained \o args.retained
               /\ StoredLength = RMul(R(2), RSum(args.retained))
        /\ Len(args.retained) % 2 = 0 =>
               /\ StoredPattern = args.retained
               /\ StoredLength = RSum(args.retained)
        /\ args.text = "2,3,4" =>
               /\ StoredPattern = <<R(2), R(3), R(4), R(2), R(3), R(4)>>
               /\ StoredLength = R(18)

C9_Witness ==
    /\ op = "Parser.convert_dasharray"
    /\ args.text = "2,3,4"
    /\ dasharray = <<R(2), R(3), R(4), R(2), R(3), R(4)>>
    /\ dasharray_length = R(18)

(***************************************************************************)
(* travel and extrude_line: the dash sequencer.  A command is              *)
(* [type, x, y, line_width] in device space.                               *)
(***************************************************************************)
\* The floats of the program are kept to FloatBits binary places: a value
\* stored after an inexact operation is a multiple of 1 / Grain.
FloatBits == 4

RECURSIVE Pow2(_)
Pow2(k) == IF k = 0 THEN 1 ELSE 2 * Pow2(k - 1)

Grain == Pow2(FloatBits)

Rounded(q) == Rat((2 * q[1] * Grain + q[2]) \div (2 * q[2]), Grain)

\* the number r among base, base + step, ... (64 of them) with n from the
\* square of r up to the square of r + step
RootIn(n, base, step) ==
    CHOOSE r \in {base + step * k : k \in 0..63} :
        r * r <= n /\ (n < (r + step) * (r + step) \/ r = base + step * 63)

\* the whole number whose square is n, or the one below (n below 2^24)
Root(n) == RootIn(n, RootIn(n, 0, 64), 1)

\* math.sqrt, rounded down to the floats kept
FSqrt(q) == Rat(Root((q[1] * Grain * Grain) \div q[2]), Grain)

\* math.sqrt: exact where the root is rational, rounded where it is not
RSqrt(q) ==
    IF Root(q[1]) * Root(q[1]) = q[1] /\ Root(q[2]) * Root(q[2]) = q[2]
    THEN Rat(Root(q[1]), Root(q[2]))
    ELSE FSqrt(q)

TravelCommand(x, y) == [type |-> "Travel", x |-> x, y |-> y, line_width |-> RZero]
ExtrudeCommand(x, y, line_width) ==
    [type |-> "Extrude", x |-> x, y |-> y, line_width |-> line_width]

\* Parser.travel
travel(end_x, end_y, transformation) ==
    LET end_t == apply_transformation(end_x, end_y, transformation)
    IN  <<TravelCommand(RSub(end_t[1], RMul(viewport_x, unit_w)),
                        RSub(end_t[2], RMul(viewport_y, unit_h)))>>

\* lines 661-662: while self.dasharray_offset < 0: += self.dasharray_length
RECURSIVE NormalisedOffset(_)
NormalisedOffset(offset) ==
    IF RLt(offset, RZero) THEN NormalisedOffset(RAdd(offset, dasharray_length)) ELSE offset

NextIndex(current_index) == (current_index % Len(dasharray)) + 1

\* lines 665-669: the dash that holds the offset, and the sum of those before
RECURSIVE FindDash(_, _, _)
FindDash(cumulative_sum, current_index, offset) ==
    IF RLt(RAdd(cumulative_sum, dasharray[current_index]), offset)
    THEN FindDash(RAdd(cumulative_sum, dasharray[current_index]),
                  NextIndex(current_index), offset)
    ELSE [cumulative_sum |-> cumulative_sum, current_index |-> current_index]

\* lines 676-690: the commands of the dashes along the line
RECURSIVE DashLoop(_, _, _, _, _, _, _)
DashLoop(position, partial_segment, current_index, is_extruding, line, line_length, line_width) ==
    IF ~RLt(position, line_length) THEN <<>>
    ELSE LET p1 == RAdd(position, dasharray[current_index])
             p2 == IF RLt(RZero, partial_segment) THEN RSub(p1, partial_segment) ELSE p1
             p3 == RMax(RMin(p2, line_length), RZero)
             x == RSub(RAdd(line.start_tx, RMul(line.direction_x, p3)),
                       RMul(viewport_x, unit_w))
             y == RSub(RAdd(line.start_ty, RMul(line.direction_y, p3)),
                       RMul(viewport_y, unit_h))
         IN  <<IF is_extruding THEN ExtrudeCommand(x, y, line_width)
               ELSE TravelCommand(x, y)>>
                 \o DashLoop(p3, RZero, NextIndex(current_index), ~is_extruding, line,
                             line_length, line_width)

\* line 692: self.dasharray_offset += line_length
OffsetKept(offset, line_length) == offset

OffsetAfter(offset, line_length) == RAdd(offset, line_length)

\* a pattern that starts in a gap, as if line 671 read is_extruding = True
AlwaysExtruding(current_index) == TRUE

\* line 671: is_extruding = current_index % 2 == 0 (the indices here start at 1)
IsExtruding(current_index) == (current_index - 1) % 2 = 0

\* extrude_line with the running offset as a parameter: the commands it
\* yields and the offset it leaves.  hangs: one of its loops never ends (a
\* pattern whose lengths are all zero never reaches the offset or the end
\* of the line).  raises: dx / line_length with a line of no length is a
\* ZeroDivisionError
SolidAdvancing(offset, last) ==
    [hangs |-> FALSE, raises |-> FALSE, commands |-> <<last>>,
     dasharray_offset |-> RAdd(offset, R(1))]

\* line 693 alone, no dash array being set: the dash offset stays as it is
Solid(offset, last) ==
    [hangs |-> FALSE, raises |-> FALSE, commands |-> <<last>>, dasharray_offset |-> offset]

LineOfLength(offset, start_t, end_t, line_length, line_width) ==
    LET last == ExtrudeCommand(RSub(end_t[1], RMul(viewport_x, unit_w)),
                               RSub(end_t[2], RMul(viewport_y, unit_h)), line_width)
        from == NormalisedOffset(offset)
        found == FindDash(RZero, 1, from)
        line == [start_tx |-> start_t[1], start_ty |-> start_t[2],
                 direction_x |-> RDiv(RSub(end_t[1], start_t[1]), line_length),
                 direction_y |-> RDiv(RSub(end_t[2], start_t[2]), line_length)]
    IN  IF dasharray = <<>>
        THEN Solid(offset, last)
        ELSE IF dasharray_length = RZero /\ offset # RZero
        THEN [hangs |-> TRUE, raises |-> FALSE, commands |-> <<>>,
              dasharray_offset |-> offset]
        ELSE IF line_length = RZero
        THEN [hangs |-> FALSE, raises |-> TRUE, commands |-> <<>>,
              dasharray_offset |-> from]
        ELSE IF dasharray_length = RZero
        THEN [hangs |-> TRUE, raises |-> FALSE, commands |-> <<>>,
              dasharray_offset |-> offset]
        ELSE [hangs |-> FALSE, raises |-> FALSE,
              commands |->
                  DashLoop(RZero, RSub(from, found.cumulative_sum),
                           found.current_index, IsExtruding(found.current_index),
                           line, line_length, line_width)
                      \o <<last>>,
              dasharray_offset |-> OffsetAfter(from, line_length)]

\* lines 658-659: dx, dy and line_length between the transformed ends
Distance(start_t, end_t) ==
    RSqrt(RAdd(RMul(RSub(end_t[1], start_t[1]), RSub(end_t[1], start_t[1])),
               RMul(RSub(end_t[2], start_t[2]), RSub(end_t[2], start_t[2]))))

LineBetween(offset, start_t, end_t, line_width) ==
    LineOfLength(offset, start_t, end_t, Distance(start_t, end_t), line_width)

ExtrudeLineFrom(offset, start_x, start_y, end_x, end_y, line_width, transformation) ==
    LineBetween(offset, apply_transformation(start_x, start_y, transformation),
                apply_transformation(end_x, end_y, transformation), line_width)

extrude_line(start_x, start_y, end_x, end_y, line_width, transformation) ==
    ExtrudeLineFrom(dasharray_offset, start_x, start_y, end_x, end_y, line_width,
                    transformation)

(***************************************************************************)
(* parse_polyline as a generator: the reset and the travel to the first    *)
(* point, then one extrude_line per further point.  ret holds its locals.  *)
(***************************************************************************)
MaxSegment == 3

\* <<stroke-dasharray, the pattern it stands for>>
PatternTexts ==
    { <<"2,3", <<2, 3>>>>, <<"1", <<1, 1>>>>, <<"2 3 4", <<2, 3, 4, 2, 3, 4>>>>,
      <<"1mm,2mm", <<1, 2>>>>, <<"5, 1", <<5, 1>>>>, <<"", <<>>>> }

\* <<stroke-dashoffset, millimetres>>
OffsetTexts ==
    { <<"0", 0>>, <<"-3", -3>>, <<"4", 4>>, <<"7", 7>>, <<"-11", -11>>, <<"2mm", 2>> }

\* <<transform, the factor by which it scales lengths>>
ScalingTexts == { <<"", 1>>, <<"scale(2)", 2>>, <<"translate(1,0) rotate(90)", 1>> }

Directions == { <<1, 0>>, <<0, 1>>, <<-1, 0>> }

\* a polyline of two segments of lengths a and b in one direction from (1,2)
PolylineCalls ==
    { [dasharray |-> pt[1], pattern |-> pt[2], dashoffset |-> ot[1], offset |-> ot[2],
       transform |-> st[1], scale |-> st[2], a |-> a, b |-> b,
       points |-> << <<R(1), R(2)>>,
                     <<R(1 + a * d[1]), R(2 + a * d[2])>>,
                     <<R(1 + (a + b) * d[1]), R(2 + (a + b) * d[2])>> >>] :
        pt \in PatternTexts, ot \in OffsetTexts, st \in ScalingTexts, d \in Directions,
        a \in 1..MaxSegment, b \in 1..MaxSegment }

InitPolyline ==
    /\ ParserInit(DefaultResolution, DefaultMachine[1], DefaultMachine[2])
    /\ tree = <<>>
    /\ op = "call"
    /\ args \in PolylineCalls
    /\ ret = <<>>
    /\ out = <<>>

\* lines 1300-1312: up to the travel to the first point
PolylineStart ==
    /\ op = "call"
    /\ \E transformation \in {convert_transform(args.transform)},
          stored \in {convert_dasharray(args.dasharray)},
          offset \in {convert_length(args.dashoffset, FALSE, None)} :
           IF transformation.raised
           THEN /\ op' = "ValueError"
                /\ UNCHANGED <<parserVars, ret, out>>
           ELSE /\ op' = "parse_polyline"
                /\ dasharray' = stored.dasharray
                /\ dasharray_length' = stored.dasharray_length
                /\ dasharray_offset' = offset
                /\ ret' = [line_width |-> convert_length("0.35mm", FALSE, None),
                           transformation |-> transformation.value,
                           i |-> 1, offset0 |-> offset, before |-> offset,
                           length |-> RZero]
                /\ out' = travel(RMul(args.points[1][1], unit_w),
                                 RMul(args.points[1][2], unit_h), transformation.value)
                /\ UNCHANGED <<resolution, viewport_x, viewport_y, viewport_w, viewport_h, image_w,
                               image_h, unit_w, unit_h>>
    /\ UNCHANGED <<cssVars, tree, args>>

\* the device-space length of the line between two points
DeviceLength(p, q, transformation) ==
    Distance(apply_transformation(p[1], p[2], transformation),
             apply_transformation(q[1], q[2], transformation))

\* lines 1313-1316: the next point, drawn from the previous one
PolylineSegment ==
    /\ op = "parse_polyline"
    /\ ret.i < Len(args.points)
    /\ \E prev \in {args.points[ret.i]}, next \in {args.points[ret.i + 1]} :
         \E line \in {extrude_line(RMul(prev[1], unit_w), RMul(prev[2], unit_h),
                                   RMul(next[1], unit_w), RMul(next[2], unit_h),
                                   ret.line_width, ret.transformation)} :
           IF line.hangs
           THEN /\ op' = "hang"
                /\ UNCHANGED <<dasharray_offset, ret, out>>
           ELSE IF line.raises
           THEN /\ op' = "ZeroDivisionError"
                /\ dasharray_offset' = line.dasharray_offset
                /\ UNCHANGED <<ret, out>>
           ELSE /\ op' = op
                /\ dasharray_offset' = line.dasharray_offset
                /\ out' = out \o line.commands
                /\ ret' = [ret EXCEPT !.i = @ + 1, !.before = dasharray_offset,
                                      !.length = DeviceLength(prev, next, ret.transformation)]
    /\ UNCHANGED <<resolution, viewport_x, viewport_y, viewport_w, viewport_h, image_w, image_h,
                   unit_w, unit_h, dasharray, dasharray_length, cssVars, tree, args>>

NextPolyline == PolylineStart \/ PolylineSegment

SpecPolyline == InitPolyline /\ [][NextPolyline]_vars

\* how far along the polyline a command's point lies (the lines are parallel
\* to an axis, with whole coordinates)
Along(command, first) ==
    Abs((command.x[1] \div command.x[2]) - (first.x[1] \div first.x[2]))
        + Abs((command.y[1] \div command.y[2]) - (first.y[1] \div first.y[2]))

\* the unit stretches of the line, counted from its start, that the
\* commands after the first extrude
RECURSIVE ExtrudedFrom(_, _, _)
ExtrudedFrom(commands, i, first) ==
    IF i > Len(commands) THEN {}
    ELSE LET from == Along(commands[i - 1], first)
             to == Along(commands[i], first)
         IN  (IF commands[i].type = "Extrude"
              THEN {t \in 0..(from + to) : (from <= t /\ t < to) \/ (to <= t /\ t < from)}
              ELSE {})
                 \cup ExtrudedFrom(commands, i + 1, first)

Extruded(commands) == ExtrudedFrom(commands, 2, commands[1])

WholeCoordinates(commands) ==
    \A i \in 1..Len(commands) : commands[i].x[2] = 1 /\ commands[i].y[2] = 1

RECURSIVE Sum(_)
Sum(ns) == IF Len(ns) = 0 THEN 0 ELSE Head(ns) + Sum(Tail(ns))

SegmentsDrawn == IF op = "parse_polyline" THEN ret.i - 1 ELSE 0

\* one extrude_line over both segments, from the offset the shape started with
DrawnWhole ==
    <<out[1]>> \o
        ExtrudeLineFrom(ret.offset0,
                        RMul(args.points[1][1], unit_w), RMul(args.points[1][2], unit_h),
                        RMul(args.points[3][1], unit_w), RMul(args.points[3][2], unit_h),
                        ret.line_width, ret.transformation).commands

SameStretches == SegmentsDrawn = 2 => Extruded(out) = Extruded(DrawnWhole)

\* C10 as stated: with a non-empty pattern of positive lengths each
\* extrude_line call increases dasharray_offset by exactly the device-space
\* length of its segment, and two consecutive collinear segments extrude the
\* same stretches as one segment of their joint length from the same offset.
C10_OffsetGrowsByLength ==
    (SegmentsDrawn >= 1 /\ args.pattern # <<>>) =>
        /\ dasharray_offset = RAdd(ret.before, ret.length)
        /\ SameStretches

\* C10 amended: the call first brings a negative offset into the pattern
\* (adding dasharray_length until it is not negative) and then adds the
\* segment's device-space length; the stretches extruded by two consecutive
\* collinear segments are those of one segment of their joint length.
C10_DashContinuity ==
    (SegmentsDrawn >= 1 /\ args.pattern # <<>>) =>
        /\ WholeCoordinates(out)
        /\ dasharray_offset =
               R((IF args.offset < 0 THEN args.offset % Sum(args.pattern) ELSE args.offset)
                 + args.scale * (IF SegmentsDrawn = 1 THEN args.a ELSE args.a + args.b))
        /\ (RLe(RZero, ret.before) => dasharray_offset = RAdd(ret.before, ret.length))
        /\ SameStretches

C10_Witness ==
    /\ SegmentsDrawn = 2
    /\ args.dasharray = "2 3 4"
    /\ args.offset = -11
    /\ args.a = 3
    /\ args.b = 1
    /\ args.scale = 2
    /\ ret.offset0 = R(-11)
    /\ dasharray_offset = R(15)
    /\ ret.before = R(13)
    /\ Extruded(out) = {0, 1, 4, 5, 6}

(***************************************************************************)
(* The curves: extrude_quadratic, extrude_cubic, extrude_arc.  Their       *)
(* floats keep FloatBits binary places: the parameter of a curve, the      *)
(* points on it and the roots are rounded to the nearest such number, so   *)
(* that a bisection runs out of numbers between its bounds as it does with *)
(* doubles.                                                                *)
(***************************************************************************)
RAbs(q) == IF RLt(q, RZero) THEN RNeg(q) ELSE q

\* (b - a) squared, for points a and b
DistanceSquared(a, b) ==
    RAdd(RMul(RSub(b[1], a[1]), RSub(b[1], a[1])), RMul(RSub(b[2], a[2]), RSub(b[2], a[2])))

Transformed(point, transformation) ==
    apply_transformation(point[1], point[2], transformation)

\* a + p * (b - a), for points a and b
Linear(a, b, p) ==
    <<RAdd(a[1], RMul(p, RSub(b[1], a[1]))), RAdd(a[2], RMul(p, RSub(b[2], a[2])))>>

RoundedPoint(point) == <<Rounded(point[1]), Rounded(point[2])>>

\* what a generator yielded and the offset it left; raises: an exception ended
\* it, hangs: it never ends
Yielded(commands, offset) ==
    [hangs |-> FALSE, raises |-> FALSE, commands |-> commands, dasharray_offset |-> offset]

Hanging(commands, offset) ==
    [hangs |-> TRUE, raises |-> FALSE, commands |-> commands, dasharray_offset |-> offset]

\* the one element of a set
The(S) == CHOOSE x \in S : TRUE

\* yield from first, then yield from rest
Then(first, rest) ==
    IF first.hangs \/ first.raises THEN first
    ELSE The({[r EXCEPT !.commands = first.commands \o r.commands] : r \in {rest}})

LineFrom(offset, start, end, line_width, transformation) ==
    ExtrudeLineFrom(offset, start[1], start[2], end[1], end[2], line_width, transformation)

\* the tolerance of the searches: 1 micron
Micron == Rat(1, 1000)

\* while ... > self.resolution * self.resolution
FurtherThanResolution(current_t, end_t) ==
    RLt(RMul(resolution, resolution), DistanceSquared(current_t, end_t))

\* math.sqrt(...) - self.resolution
StepError(new_t, current_t) == RSub(FSqrt(DistanceSquared(new_t, current_t)), resolution)

\* lines 745-750: the point of the quadratic curve at p
QuadraticPoint(curve, p) ==
    Linear(Linear(curve.start, curve.handle1, p), Linear(curve.handle1, curve.end, p), p)

\* lines 616-630: the point of the cubic curve at p
CubicPoint(curve, p) ==
    Linear(Linear(Linear(curve.start, curve.handle1, p),
                  Linear(curve.handle1, curve.handle2, p), p),
           Linear(Linear(curve.handle1, curve.handle2, p),
                  Linear(curve.handle2, curve.end, p), p),
           p)

\* the parameter a search tries next: a quarter of the way for a cubic curve
\* (line 613), half way for the others (lines 541, 743)
Proposed(curve, lower, upper) ==
    IF curve.kind = "cubic"
    THEN Rounded(RDiv(RAdd(RMul(lower, R(3)), upper), R(4)))
    ELSE Rounded(RDiv(RAdd(lower, upper), R(2)))

\* Angles are counted in eighths of a turn: math.pi is 4 of them.
Pi == R(4)

\* a modulo m, for m > 0
RMod(a, m) == RSub(a, RMul(m, R((a[1] * m[2]) \div (a[2] * m[1]))))

\* (pi^2 - 4 x^2) / (pi^2 + x^2), which is the cosine of x to three hundredths
\* for x up to a right angle either way
CosNear(x) ==
    Rounded(RDiv(RSub(RMul(Pi, Pi), RMul(R(4), RMul(x, x))), RAdd(RMul(Pi, Pi), RMul(x, x))))

\* the cosine of x, for x between -pi and pi
CosWithin(x) ==
    IF RLe(RAbs(x), RDiv(Pi, R(2))) THEN CosNear(x) ELSE RNeg(CosNear(RSub(Pi, RAbs(x))))

\* math.cos
Cos(x) == CosWithin(RSub(RMod(RAdd(x, Pi), RMul(Pi, R(2))), Pi))

\* math.sin
Sin(x) == Cos(RSub(x, RDiv(Pi, R(2))))

\* math.acos of c between 0 and 1: the x whose CosNear is c
AcosNear(c) == Rounded(RMul(Pi, FSqrt(RDiv(RSub(R(1), c), RAdd(R(4), c)))))

\* math.acos
Acos(c) == IF RLe(RZero, c) THEN AcosNear(c) ELSE RSub(Pi, AcosNear(RNeg(c)))

\* lines 541-548: the point of the ellipse at an angle
ArcPoint(curve, angle) ==
    <<RAdd(RSub(RMul(curve.cos_rotation, RMul(Cos(angle), curve.rx)),
                RMul(curve.sin_rotation, RMul(Sin(angle), curve.ry))),
           curve.centre[1]),
      RAdd(RAdd(RMul(curve.sin_rotation, RMul(Cos(angle), curve.rx)),
                RMul(curve.cos_rotation, RMul(Sin(angle), curve.ry))),
           curve.centre[2])>>

CurvePoint(curve, p) ==
    RoundedPoint(CASE curve.kind = "quadratic" -> QuadraticPoint(curve, p)
                   [] curve.kind = "cubic" -> CubicPoint(curve, p)
                   [] curve.kind = "arc" -> ArcPoint(curve, p))

(***************************************************************************)
(* The stepping loops of the three curves (lines 533-564, 599-641 and      *)
(* 737-767) are one loop over a parameter: the angle from start_angle to   *)
(* end_angle for an arc, p from 0 to 1 for the other two.  A loop is a     *)
(* round, a function from the values of its variables to their next        *)
(* values, applied until the loop is left.                                 *)
(***************************************************************************)
\* the variables of the inner loop as it is entered
SearchFrom(curve, current, lower) ==
    [curve |-> curve, current_t |-> Transformed(current, curve.transformation),
     lower |-> lower, upper |-> curve.upper, new |-> current, error |-> resolution,
     parameter |-> lower, left |-> FALSE]

\* the step was too far: the upper bound comes down; else the lower goes up
Narrow(s, proposed, point, error) ==
    [s EXCEPT !.lower = IF RLt(RZero, error) THEN @ ELSE proposed,
              !.upper = IF RLt(RZero, error) THEN proposed ELSE @,
              !.new = point, !.error = error, !.parameter = proposed]

\* the point at the proposed parameter, and how far the step to it is
Measure(s, proposed, point) ==
    The({Narrow(s, proposed, point, error) :
           error \in {StepError(Transformed(point, s.curve.transformation), s.current_t)}})

\* one round of the search; it breaks off when the proposed parameter is one
\* of the bounds, keeping the point it had
Try(s, proposed) ==
    IF proposed = s.lower \/ proposed = s.upper
    THEN [s EXCEPT !.parameter = proposed, !.left = TRUE]
    ELSE The({Measure(s, proposed, point) : point \in {CurvePoint(s.curve, proposed)}})

SearchRound(s) ==
    The({Try(s, proposed) : proposed \in {Proposed(s.curve, s.lower, s.upper)}})

\* while abs(error) > 0.001
RECURSIVE Search(_)
Search(s) ==
    IF s.left \/ ~RLt(Micron, RAbs(s.error)) THEN s
    ELSE CHOOSE found \in {Search(next) : next \in {SearchRound(s)}} : TRUE

NoFinalStep(curve, current, offset) == Yielded(<<>>, offset)

\* the last step, to the end of the curve itself
FinalStep(curve, current, offset) ==
    LineFrom(offset, current, curve.end, curve.line_width, curve.transformation)

\* the variables of the outer loop as it is entered
SteppingFrom(curve, offset) ==
    [curve |-> curve, current |-> curve.start, lower |-> curve.lower,
     made |-> Yielded(<<>>, offset), seen |-> {<<curve.start, curve.lower>>},
     left |-> FALSE]

\* the line to the point found, and on from there; the loop never ends when
\* it comes back to a point and a parameter it has been at
Advance(f, found, made) ==
    IF made.hangs \/ made.raises THEN [f EXCEPT !.made = made, !.left = TRUE]
    ELSE IF <<found.new, found.parameter>> \in f.seen
    THEN [f EXCEPT !.made = Hanging(made.commands, made.dasharray_offset), !.left = TRUE]
    ELSE [f EXCEPT !.current = found.new, !.lower = found.parameter, !.made = made,
                   !.seen = @ \cup {<<found.new, found.parameter>>}]

Step(f, found) ==
    The({Advance(f, found, made) :
           made \in {Then(f.made, LineFrom(f.made.dasharray_offset, f.current, found.new,
                                           f.curve.line_width, f.curve.transformation))}})

\* one round of the outer loop; the loop is left when the current point is
\* within the resolution of the end, and the last step follows
SteppingRound(f) ==
    IF FurtherThanResolution(Transformed(f.current, f.curve.transformation),
                             Transformed(f.curve.end, f.curve.transformation))
    THEN The({Step(f, found) : found \in {Search(SearchFrom(f.curve, f.current, f.lower))}})
    ELSE [f EXCEPT !.made = Then(f.made, FinalStep(f.curve, f.current,
                                                   f.made.dasharray_offset)),
                   !.left = TRUE]

RECURSIVE Stepping(_)
Stepping(f) ==
    IF f.left THEN f
    ELSE CHOOSE after \in {Stepping(next) : next \in {SteppingRound(f)}} : TRUE

Flattened(curve, offset) ==
    The({Stepping(SteppingFrom(c, offset)).made : c \in {curve}})

(***************************************************************************)
(* extrude_arc, lines 479-530: the ellipse through start and end.  Every   *)
(* float it stores is rounded.                                             *)
(***************************************************************************)
\* lines 496-497: x1, y1
ArcMiddle(start, end, cos_rotation, sin_rotation) ==
    <<Rounded(RAdd(RMul(cos_rotation, RDiv(RSub(start[1], end[1]), R(2))),
                   RMul(sin_rotation, RDiv(RSub(start[2], end[2]), R(2))))),
      Rounded(RAdd(RMul(cos_rotation, RDiv(RSub(start[2], end[2]), R(2))),
                   RMul(sin_rotation, RDiv(RSub(start[1], end[1]), R(2)))))>>

\* lines 498-501: the radii, made larger when the ellipse does not reach
ArcScaled(radii, lambda_multiplier) ==
    IF RLt(R(1), lambda_multiplier)
    THEN <<Rounded(RMul(radii[1], FSqrt(lambda_multiplier))),
           Rounded(RMul(radii[2], FSqrt(lambda_multiplier)))>>
    ELSE radii

ArcRadii(radii, middle) ==
    ArcScaled(radii, Rounded(RAdd(RDiv(RMul(middle[1], middle[1]), RMul(radii[1], radii[1])),
                                  RDiv(RMul(middle[2], middle[2]), RMul(radii[2], radii[2])))))

\* line 503, given sum_squares and the square of rx * ry
ArcRoot(sum_squares, product) ==
    FSqrt(RAbs(RDiv(RSub(product, sum_squares), sum_squares)))

\* lines 502-505: coefficient
ArcCoefficient(radii, middle, large_arc, sweep_flag) ==
    IF large_arc = sweep_flag
    THEN RNeg(ArcRoot(Rounded(RAdd(RMul(RMul(radii[1], middle[2]), RMul(radii[1], middle[2])),
                                   RMul(RMul(radii[2], middle[1]), RMul(radii[2], middle[1])))),
                      Rounded(RMul(RMul(radii[1], radii[2]), RMul(radii[1], radii[2])))))
    ELSE ArcRoot(Rounded(RAdd(RMul(RMul(radii[1], middle[2]), RMul(radii[1], middle[2])),
                              RMul(RMul(radii[2], middle[1]), RMul(radii[2], middle[1])))),
                 Rounded(RMul(RMul(radii[1], radii[2]), RMul(radii[1], radii[2]))))

\* lines 506-507: cx_original, cy_original
ArcCentreOriginal(radii, middle, coefficient) ==
    <<Rounded(RDiv(RMul(RMul(coefficient, radii[1]), middle[2]), radii[2])),
      Rounded(RDiv(RMul(RMul(RNeg(coefficient), radii[2]), middle[1]), radii[1]))>>

\* lines 508-509: cx, cy
ArcCentre(start, end, cos_rotation, sin_rotation, original) ==
    <<Rounded(RAdd(RSub(RMul(cos_rotation, original[1]), RMul(sin_rotation, original[2])),
                   RDiv(RAdd(start[1], end[1]), R(2)))),
      Rounded(RAdd(RAdd(RMul(sin_rotation, original[1]), RMul(cos_rotation, original[2])),
                   RDiv(RAdd(start[2], end[2]), R(2))))>>

\* math.acos(c / mod), negated when negative is true; math.acos raises
\* ValueError outside -1..1 and the division ZeroDivisionError
AngleTo(c, mod, negative) ==
    IF mod = RZero \/ RLt(R(1), RAbs(RDiv(c, mod))) THEN [raises |-> TRUE, angle |-> RZero]
    ELSE [raises |-> FALSE,
          angle |-> IF negative THEN RNeg(Acos(RDiv(c, mod))) ELSE Acos(RDiv(c, mod))]

\* lines 515-518: start_angle, from xcr_start and ycr_start
ArcStartAngle(from) ==
    AngleTo(from[1], FSqrt(RAdd(RMul(from[1], from[1]), RMul(from[2], from[2]))),
            RLt(from[2], RZero))

\* lines 519-523: delta_angle before the modulo
ArcDeltaAngle(from, to) ==
    AngleTo(RSub(RNeg(RMul(from[1], to[1])), RMul(from[2], to[2])),
            FSqrt(RMul(RAdd(RMul(from[1], from[1]), RMul(from[2], from[2])),
                       RAdd(RMul(to[1], to[1]), RMul(to[2], to[2])))),
            RLt(RSub(RMul(from[1], to[2]), RMul(from[2], to[1])), RZero))

\* lines 524-527: end_angle
ArcEndAngle(start_angle, delta_angle, sweep_flag) ==
    RAdd(start_angle,
         IF sweep_flag THEN RMod(delta_angle, RMul(Pi, R(2)))
         ELSE RSub(RMod(delta_angle, RMul(Pi, R(2))), RMul(Pi, R(2))))

\* an exception ended the generator after these commands
Raising(commands, offset) ==
    [hangs |-> FALSE, raises |-> TRUE, commands |-> commands, dasharray_offset |-> offset]

\* lines 510-530: the arc from its centre and the two directions
\* (xcr_start, ycr_start) and (xcr_end, ycr_end)
ArcOn(ends, radii, rotated, centre, from, to, sweep_flag, pen) ==
    [kind |-> "arc", start |-> ends[1], end |-> ends[2], rx |-> radii[1], ry |-> radii[2],
     cos_rotation |-> rotated[1], sin_rotation |-> rotated[2], centre |-> centre,
     raises |-> ArcStartAngle(from).raises \/ ArcDeltaAngle(from, to).raises,
     lower |-> ArcStartAngle(from).angle,
     upper |-> ArcEndAngle(ArcStartAngle(from).angle, ArcDeltaAngle(from, to).angle,
                           sweep_flag),
     line_width |-> pen[1], transformation |-> pen[2]]

ArcThrough(ends, radii, rotated, middle, original, sweep_flag, pen) ==
    ArcOn(ends, radii, rotated, ArcCentre(ends[1], ends[2], rotated[1], rotated[2], original),
          <<Rounded(RDiv(RSub(middle[1], original[1]), radii[1])),
            Rounded(RDiv(RSub(middle[2], original[2]), radii[2]))>>,
          <<Rounded(RDiv(RAdd(middle[1], original[1]), radii[1])),
            Rounded(RDiv(RAdd(middle[2], original[2]), radii[2]))>>,
          sweep_flag, pen)

ArcWith(ends, radii, rotated, middle, large_arc, sweep_flag, pen) ==
    ArcThrough(ends, radii, rotated, middle,
               ArcCentreOriginal(radii, middle,
                                 ArcCoefficient(radii, middle, large_arc, sweep_flag)),
               sweep_flag, pen)

ArcRotated(ends, radii, rotated, large_arc, sweep_flag, pen) ==
    ArcWith(ends, ArcRadii(radii, ArcMiddle(ends[1], ends[2], rotated[1], rotated[2])),
            rotated, ArcMiddle(ends[1], ends[2], rotated[1], rotated[2]), large_arc,
            sweep_flag, pen)

\* lines 494-530; rotation / 180 * math.pi
ArcCurve(ends, radii, rotation, large_arc, sweep_flag, pen) ==
    ArcRotated(ends, radii,
               <<Cos(RMul(RDiv(rotation, R(180)), Pi)), Sin(RMul(RDiv(rotation, R(180)), Pi))>>,
               large_arc, sweep_flag, pen)

FlattenedArc(curve, offset) ==
    The({IF c.raises THEN Raising(<<>>, offset) ELSE Flattened(c, offset) : c \in {curve}})

ExtrudeArcFrom(offset, start, rx, ry, rotation, large_arc, sweep_flag, end, line_width, transformation) ==
    IF start = end THEN Yielded(<<>>, offset)
    ELSE IF rx = RZero \/ ry = RZero
    THEN LineFrom(offset, start, end, line_width, transformation)
    ELSE IF ~FurtherThanResolution(Transformed(start, transformation),
                                   Transformed(end, transformation))
    THEN LineFrom(offset, start, end, line_width, transformation)
    ELSE FlattenedArc(ArcCurve(<<start, end>>, <<RAbs(rx), RAbs(ry)>>, rotation, large_arc,
                               sweep_flag, <<line_width, transformation>>),
                      offset)

extrude_arc(start_x, start_y, rx, ry, rotation, large_arc, sweep_flag, end_x, end_y, line_width, transformation) ==
    ExtrudeArcFrom(dasharray_offset, <<start_x, start_y>>, rx, ry, rotation, large_arc,
                   sweep_flag, <<end_x, end_y>>, line_width, transformation)

\* a <= b <= c or a >= b >= c
Between(a, b, c) == (RLe(a, b) /\ RLe(b, c)) \/ (RLe(c, b) /\ RLe(b, a))

\* lines 723-735: the handle lies on the line from start to end, between them
HandleBetween(start, handle, end) ==
    IF start[1] = end[1]
    THEN handle[1] = start[1] /\ Between(start[2], handle[2], end[2])
    ELSE IF start[2] = end[2]
    THEN handle[2] = start[2] /\ Between(start[1], handle[1], end[1])
    ELSE /\ RDiv(RSub(handle[1], start[1]), RSub(end[1], start[1]))
              = RDiv(RSub(handle[2], start[2]), RSub(end[2], start[2]))
         /\ Between(start[1], handle[1], end[1])

ExtrudeQuadraticFrom(offset, start, handle, end, line_width, transformation) ==
    IF HandleBetween(start, handle, end)
    THEN LineFrom(offset, start, end, line_width, transformation)
    ELSE Flattened([kind |-> "quadratic", start |-> start, handle1 |-> handle, end |-> end,
                    lower |-> RZero, upper |-> R(1), line_width |-> line_width,
                    transformation |-> transformation],
                   offset)

extrude_quadratic(start_x, start_y, handle_x, handle_y, end_x, end_y, line_width, transformation) ==
    ExtrudeQuadraticFrom(dasharray_offset, <<start_x, start_y>>, <<handle_x, handle_y>>,
                         <<end_x, end_y>>, line_width, transformation)

ExtrudeCubicFrom(offset, start, handle1, handle2, end, line_width, transformation) ==
    Flattened([kind |-> "cubic", start |-> start, handle1 |-> handle1, handle2 |-> handle2,
               end |-> end, lower |-> RZero, upper |-> R(1), line_width |-> line_width,
               transformation |-> transformation],
              offset)

extrude_cubic(start_x, start_y, handle1_x, handle1_y, handle2_x, handle2_y, end_x, end_y, line_width, transformation) ==
    ExtrudeCubicFrom(dasharray_offset, <<start_x, start_y>>, <<handle1_x, handle1_y>>,
                     <<handle2_x, handle2_y>>, <<end_x, end_y>>, line_width, transformation)

(***************************************************************************)
(* The three curve extruders, called on one Parser as the shape handlers   *)
(* call them: the dash state is set from the element first (as in lines    *)
(* 959-960 of parse_circle), then the curve is extruded, once or again.    *)
(***************************************************************************)
MaxCalls == 2

\* the last one is the least value the setting takes, the tolerance of the searches
Resolutions == {R(2), R(4), Micron}

CurvePatterns == {"", "3 1"}

Doubled == <<<<R(2), R(0), R(0)>>, <<R(0), R(2), R(0)>>, <<R(0), R(0), R(1)>>>>

Origin == <<R(0), R(0)>>

\* a call of travel or of an extruder, with its arguments
Call(fn, start, handle1, handle2, end, radii, rotation, flags) ==
    [fn |-> fn, start |-> start, handle1 |-> handle1, handle2 |-> handle2, end |-> end,
     rx |-> radii[1], ry |-> radii[2], rotation |-> rotation, large_arc |-> flags[1],
     sweep_flag |-> flags[2]]

Curve(fn, handle1, handle2, end, radii, rotation, flags) ==
    Call(fn, Origin, handle1, handle2, end, radii, rotation, flags)

ArcCalls ==
    { Curve("extrude_arc", Origin, Origin, end, radii, rotation, flags) :
        end \in {Origin, <<R(1), R(1)>>, <<R(4), R(4)>>, <<R(8), R(0)>>},
        radii \in {<<R(0), R(4)>>, <<R(4), R(4)>>, <<R(-4), R(2)>>},
        rotation \in {R(0), R(90)},
        flags \in BOOLEAN \X BOOLEAN }

QuadraticCalls ==
    { Curve("extrude_quadratic", handle, Origin, end, Origin, R(0), <<FALSE, FALSE>>) :
        handle \in {<<R(4), R(0)>>, <<R(8), R(0)>>, <<R(0), R(6)>>},
        end \in {<<R(8), R(0)>>, <<R(8), R(8)>>, <<R(1), R(1)>>} }

CubicCalls ==
    { Curve("extrude_cubic", handle1, handle2, end, Origin, R(0), <<FALSE, FALSE>>) :
        handle1 \in {<<R(0), R(8)>>, <<R(4), R(0)>>},
        handle2 \in {<<R(8), R(8)>>, <<R(4), R(0)>>},
        end \in {<<R(8), R(0)>>, <<R(1), R(0)>>} }

CurveCalls ==
    { [curve |-> curve, dasharray |-> pattern, transformation |-> transformation] :
        curve \in ArcCalls \cup QuadraticCalls \cup CubicCalls,
        pattern \in CurvePatterns,
        transformation \in {Identity, Doubled} }

InitCurve ==
    /\ \E meshfix_maximum_resolution \in Resolutions :
         ParserInit(meshfix_maximum_resolution, DefaultMachine[1], DefaultMachine[2])
    /\ tree = <<>>
    /\ op = "call"
    /\ args \in CurveCalls
    /\ ret = <<>>
    /\ out = <<>>

\* the dash state, reset from the element
CurveReset ==
    /\ op = "call"
    /\ \E stored \in {convert_dasharray(args.dasharray)} :
         /\ dasharray' = stored.dasharray
         /\ dasharray_length' = stored.dasharray_length
    /\ dasharray_offset' = convert_length("0", FALSE, None)
    /\ op' = "reset"
    /\ UNCHANGED <<resolution, viewport_x, viewport_y, viewport_w, viewport_h, image_w, image_h,
                   unit_w, unit_h, cssVars, tree, args, ret, out>>

\* the generator a call of travel or of an extruder makes, run to its end
\* from a dash offset
YieldFrom(offset, c, line_width, transformation) ==
    CASE c.fn = "travel" ->
           Yielded(travel(c.end[1], c.end[2], transformation), offset)
      [] c.fn = "extrude_line" ->
           LineFrom(offset, c.start, c.end, line_width, transformation)
      [] c.fn = "extrude_arc" ->
           ExtrudeArcFrom(offset, c.start, c.rx, c.ry, c.rotation, c.large_arc,
                          c.sweep_flag, c.end, line_width, transformation)
      [] c.fn = "extrude_quadratic" ->
           ExtrudeQuadraticFrom(offset, c.start, c.handle1, c.end, line_width,
                                transformation)
      [] c.fn = "extrude_cubic" ->
           ExtrudeCubicFrom(offset, c.start, c.handle1, c.handle2, c.end, line_width,
                            transformation)

Extruded_curve(c, line_width, transformation) ==
    YieldFrom(dasharray_offset, c, line_width, transformation)

\* one call of the extruder, with the same arguments every time
CurveCall ==
    /\ op \in {"reset", "extruded"}
    /\ Len(ret) < MaxCalls
    /\ \E made \in {Extruded_curve(args.curve, R(1), args.transformation)} :
         /\ op' = IF made.hangs THEN "hang"
                  ELSE IF made.raises THEN "exception" ELSE "extruded"
         /\ dasharray_offset' = made.dasharray_offset
         /\ ret' = Append(ret, [before |-> dasharray_offset, hangs |-> made.hangs,
                                raises |-> made.raises, commands |-> made.commands])
         /\ out' = out \o made.commands
    /\ UNCHANGED <<resolution, viewport_x, viewport_y, viewport_w, viewport_h, image_w, image_h,
                   unit_w, unit_h, dasharray, dasharray_length, cssVars, tree, args>>

NextCurve == CurveReset \/ CurveCall

SpecCurve == InitCurve /\ [][NextCurve]_vars

\* the command lies at the transformed end point of the curve
AtEnd(command, end, transformation) ==
    /\ command.x = RSub(Transformed(end, transformation)[1], RMul(viewport_x, unit_w))
    /\ command.y = RSub(Transformed(end, transformation)[2], RMul(viewport_y, unit_h))

\* the call ran to its end: it neither raised nor stepped for ever
RanToEnd(made) == ~made.hangs /\ ~made.raises

C15_DashedTwice ==
    /\ args.curve.fn = "extrude_arc"
    /\ Len(ret) = 2
    /\ dasharray # <<>>
    /\ op = "extruded"
    /\ ret[2].before # ret[1].before
    /\ ret[1].commands # ret[2].commands

(***************************************************************************)
(* The shape handlers yield from travel and from the extruders, one call   *)
(* after the other; each call starts from the dash offset the one before   *)
(* it left.                                                                *)
(***************************************************************************)
NoFlags == <<FALSE, FALSE>>

TravelTo(end) == Call("travel", end, Origin, Origin, end, Origin, R(0), NoFlags)

Line(start, end) == Call("extrude_line", start, Origin, Origin, end, Origin, R(0), NoFlags)

Arc(start, radii, rotation, flags, end) ==
    Call("extrude_arc", start, Origin, Origin, end, radii, rotation, flags)

Quadratic(start, handle, end) ==
    Call("extrude_quadratic", start, handle, Origin, end, Origin, R(0), NoFlags)

Cubic(start, handle1, handle2, end) ==
    Call("extrude_cubic", start, handle1, handle2, end, Origin, R(0), NoFlags)

RECURSIVE YieldAll(_, _, _, _, _)
YieldAll(calls, i, offset, line_width, transformation) ==
    IF i > Len(calls) THEN Yielded(<<>>, offset)
    ELSE The({Then(made, YieldAll(calls, i + 1, made.dasharray_offset, line_width,
                                  transformation)) :
                made \in {YieldFrom(offset, c, line_width, transformation) : c \in {calls[i]}}})

\* what became of a generator: how the handler ended
Ended(made, name) ==
    IF made.hangs THEN "hang" ELSE IF made.raises THEN "ZeroDivisionError" ELSE name

(***************************************************************************)
(* parse_rect, lines 1321-1350.                                            *)
(***************************************************************************)
\* lines 1343-1350: the travel, the four sides and the four corners
RectOutline(x, y, rx, ry, width, height) ==
    << TravelTo(<<RAdd(x, rx), y>>),
       Line(<<RAdd(x, rx), y>>, <<RSub(RAdd(x, width), rx), y>>),
       Arc(<<RSub(RAdd(x, width), rx), y>>, <<rx, ry>>, R(0), <<FALSE, TRUE>>,
           <<RAdd(x, width), RAdd(y, ry)>>),
       Line(<<RAdd(x, width), RAdd(y, ry)>>, <<RAdd(x, width), RSub(RAdd(y, height), ry)>>),
       Arc(<<RAdd(x, width), RSub(RAdd(y, height), ry)>>, <<rx, ry>>, R(0), <<FALSE, TRUE>>,
           <<RSub(RAdd(x, width), rx), RAdd(y, height)>>),
       Line(<<RSub(RAdd(x, width), rx), RAdd(y, height)>>, <<RAdd(x, rx), RAdd(y, height)>>),
       Arc(<<RAdd(x, rx), RAdd(y, height)>>, <<rx, ry>>, R(0), <<FALSE, TRUE>>,
           <<x, RSub(RAdd(y, height), ry)>>),
       Line(<<x, RSub(RAdd(y, height), ry)>>, <<x, RAdd(y, ry)>>),
       Arc(<<x, RAdd(y, ry)>>, <<rx, ry>>, R(0), <<FALSE, TRUE>>, <<RAdd(x, rx), y>>) >>

\* lines 1327-1332: x, y, rx, ry, width, height
RectLengths(attrib) ==
    [x |-> convert_length(Get(attrib, "x", "0"), FALSE, None),
     y |-> convert_length(Get(attrib, "y", "0"), TRUE, None),
     rx |-> convert_length(Get(attrib, "rx", "0"), FALSE, None),
     ry |-> convert_length(Get(attrib, "ry", "0"), TRUE, None),
     width |-> convert_length(Get(attrib, "width", "0"), FALSE, None),
     height |-> convert_length(Get(attrib, "height", "0"), TRUE, None)]

\* lines 1338-1350
RectFrom(rect, offset, line_width, transformation) ==
    IF rect.width = RZero \/ rect.height = RZero THEN Yielded(<<>>, offset)
    ELSE The({YieldAll(calls, 1, offset, line_width, transformation) :
                calls \in {RectOutline(rect.x, rect.y, RMin(rect.rx, RDiv(rect.width, R(2))),
                                       RMin(rect.ry, RDiv(rect.height, R(2))), rect.width,
                                       rect.height)}})

RectAttributes ==
    { [x |-> x, y |-> y, rx |-> rx, ry |-> ry, width |-> width, height |-> height,
       transform |-> transform, dasharray |-> pattern] :
        x \in {"0", "3"}, y \in {"0", "2mm"}, rx \in {"0", "1", "20"}, ry \in {"0", "1"},
        width \in {"0", "10", "4mm", "-10"}, height \in {"0", "5", "-6"},
        transform \in {"", "scale(2)", "translate(a,b)"},
        pattern \in CurvePatterns }

\* the attributes that are not at their default are written on the element
Written(attributes, names, default) ==
    [name \in {n \in names : attributes[n] # default} |-> attributes[name]]

RectElement(a) ==
    Element("rect",
            Written(a, {"x", "y", "rx", "ry"}, "0") @@ Written(a, {"width", "height"}, "")
                @@ [transform |-> a.transform] @@ ("stroke-dasharray" :> a.dasharray),
            "", <<>>)

InitRect ==
    /\ ParserInit(R(16), DefaultMachine[1], DefaultMachine[2])
    /\ tree \in {RectElement(a) : a \in RectAttributes}
    /\ op = "call"
    /\ args = <<>>
    /\ ret = <<>>
    /\ out = <<>>

ParseRect ==
    /\ op = "call"
    /\ \E rect \in {RectLengths(tree.attrib)},
          line_width \in {convert_length(Get(tree.attrib, "stroke-width", "0.35mm"), FALSE, None)},
          transformation \in {convert_transform(Get(tree.attrib, "transform", ""))},
          stored \in {convert_dasharray(Get(tree.attrib, "stroke-dasharray", ""))},
          offset \in {convert_length(Get(tree.attrib, "stroke-dashoffset", "0"), FALSE, None)} :
         IF transformation.raised
         THEN /\ op' = "ValueError"
              /\ UNCHANGED <<dasharray, dasharray_length, dasharray_offset, ret, out>>
         ELSE \E made \in {RectFrom(rect, offset, line_width, transformation.value)} :
                /\ op' = Ended(made, "parse_rect")
                /\ dasharray' = stored.dasharray
                /\ dasharray_length' = stored.dasharray_length
                /\ dasharray_offset' = made.dasharray_offset
                /\ ret' = [rect |-> rect, line_width |-> line_width,
                           transformation |-> transformation.value]
                /\ out' = made.commands
    /\ UNCHANGED <<resolution, viewport_x, viewport_y, viewport_w, viewport_h, image_w, image_h,
                   unit_w, unit_h, cssVars, tree, args>>

NextRect == ParseRect

SpecRect == InitRect /\ [][NextRect]_vars

\* the Extrude command that ends at a point
ExtrudeTo(point, line_width, transformation) ==
    ExtrudeCommand(RSub(Transformed(point, transformation)[1], RMul(viewport_x, unit_w)),
                   RSub(Transformed(point, transformation)[2], RMul(viewport_y, unit_h)),
                   line_width)

\* a Travel to (0, 0) and an Extrude to each corner, round to (0, 0)
FourSides(width, height, line_width, transformation) ==
    travel(R(0), R(0), transformation)
        \o << ExtrudeTo(<<width, R(0)>>, line_width, transformation),
              ExtrudeTo(<<width, height>>, line_width, transformation),
              ExtrudeTo(<<R(0), height>>, line_width, transformation),
              ExtrudeTo(<<R(0), R(0)>>, line_width, transformation) >>

\* a rect at (0, 0) with square corners and no dash array was parsed
SquareAtOrigin ==
    /\ op = "parse_rect"
    /\ ret.rect.x = RZero /\ ret.rect.y = RZero
    /\ ret.rect.rx = RZero /\ ret.rect.ry = RZero
    /\ dasharray = <<>>

\* C13 as stated: a rect at (0, 0) with rx = ry = 0, no dash array and a
\* width and a height that are not zero gives one Travel to (0, 0) and four
\* Extrude commands, to the four corners in order and back to (0, 0).
C13_FourSidesNonZero ==
    (SquareAtOrigin /\ ret.rect.width # RZero /\ ret.rect.height # RZero) =>
        out = FourSides(ret.rect.width, ret.rect.height, ret.line_width, ret.transformation)

\* C13: a rect at (0, 0) with rx = ry = 0, no dash array and a positive
\* width and height gives one Travel to (0, 0) and four Extrude commands, to
\* the four corners in order and back to (0, 0); the corners add nothing.
C13_FourSides ==
    (SquareAtOrigin /\ RLt(RZero, ret.rect.width) /\ RLt(RZero, ret.rect.height)) =>
        out = FourSides(ret.rect.width, ret.rect.height, ret.line_width, ret.transformation)

\* the rect of 10 by 5 under scale(2)
C13_Witness ==
    /\ SquareAtOrigin
    /\ tree.attrib["width"] = "10"
    /\ tree.attrib["height"] = "5"
    /\ tree.attrib["transform"] = "scale(2)"
    /\ Len(out) = 5
    /\ out[1].type = "Travel"
    /\ out[3].type = "Extrude"
    /\ out[3].x = RMul(R(2), ret.rect.width)
    /\ out[3].y = RMul(R(2), ret.rect.height)

(***************************************************************************)
(* parse_path, lines 1024-1259.  The d attribute is cut into commands, a   *)
(* letter and what follows it up to the next letter; the numbers in a      *)
(* command are its parameters.                                             *)
(***************************************************************************)
\* [A-DF-Za-df-z]: every letter but E and e
IsCommandLetter(c) ==
    (Contains(UpperCase, c) \/ Contains(LowerCase, c)) /\ c \notin {"E", "e"}

\* how many characters from position i on are not command letters
RECURSIVE NoLetterRun(_, _)
NoLetterRun(s, i) ==
    IF i <= Len(s) /\ ~IsCommandLetter(Char(s, i)) THEN 1 + NoLetterRun(s, i + 1) ELSE 0

\* line 1052: re.findall(r"[A-DF-Za-df-z][^A-DF-Za-df-z]*", d)
RECURSIVE PathCommands(_)
PathCommands(d) ==
    IF Len(d) = 0 THEN <<>>
    ELSE IF ~IsCommandLetter(Char(d, 1))
    THEN The({PathCommands(rest) : rest \in {From(d, NoLetterRun(d, 1) + 1)}})
    ELSE The({<<SubSeq(d, 1, n + 1)>> \o PathCommands(From(d, n + 2)) :
                n \in {NoLetterRun(d, 2)}})

\* line 1057: re.findall of the number expression, each match made a float
RECURSIVE Floats(_)
Floats(s) ==
    IF Len(s) = 0 THEN <<>>
    ELSE The({IF n = 0 THEN Floats(From(s, 2))
              ELSE <<NumberValue(SubSeq(s, 1, n))>> \o Floats(From(s, n + 1)) :
                n \in {NumberMatch(s)}})

\* parameters[i] * self.unit_w, parameters[i + 1] * self.unit_h
Pair(parameters, i) == <<RMul(parameters[i], unit_w), RMul(parameters[i + 1], unit_h)>>

PointAdd(a, b) == <<RAdd(a[1], b[1]), RAdd(a[2], b[2])>>

\* the lower-case commands count from the current position
Relative(command_name) == Contains(LowerCase, command_name)

\* where the parameters i and i + 1 of the command point
Target(t, i) ==
    IF Relative(t.command_name) THEN PointAdd(t.position, Pair(t.parameters, i))
    ELSE Pair(t.parameters, i)

\* lines 1038-1052: the variables of parse_path before its first command
PathBegin(d, line_width, transformation, offset) ==
    [position |-> Origin, start |-> Origin, previous_quadratic |-> Origin,
     previous_cubic |-> Origin, commands |-> PathCommands(Strip(Replace(d, ",", " "))),
     line_width |-> line_width, transformation |-> transformation,
     dasharray_offset |-> offset, log |-> <<>>]

\* lines 1054-1057: the variables of one round of the loop over the commands
CommandBegin(p, command) ==
    [position |-> p.position, start |-> p.start, previous_quadratic |-> p.previous_quadratic,
     previous_cubic |-> p.previous_cubic, command_name |-> Char(Strip(command), 1),
     parameters |-> Floats(From(Strip(command), 2)), calls |-> <<>>, moved |-> FALSE,
     continued |-> FALSE]

\* lines 1063-1071 and 1075-1083: the travel, the rest of the parameters are lines
MovedInSubpath(t, to) ==
    [t EXCEPT !.position = to, !.calls = <<TravelTo(to)>>, !.moved = TRUE,
              !.command_name = IF @ = "M" THEN "L" ELSE "l",
              !.parameters = SubSeq(@, 3, Len(@))]

Moved(t, to) ==
    [t EXCEPT !.position = to, !.start = to, !.calls = <<TravelTo(to)>>, !.moved = TRUE,
              !.command_name = IF @ = "M" THEN "L" ELSE "l",
              !.parameters = SubSeq(@, 3, Len(@))]

\* lines 1060-1083
Move(t) ==
    IF t.command_name \notin {"M", "m"} THEN t
    ELSE IF Len(t.parameters) < 2 THEN [t EXCEPT !.continued = TRUE]
    ELSE The({Moved(t, to) : to \in {Target(t, 1)}})

\* how many parameters one round of the while loop of a command takes
Arity(command_name) ==
    CASE command_name \in {"A", "a"} -> 7
      [] command_name \in {"C", "c"} -> 6
      [] command_name \in {"Q", "q", "S", "s"} -> 4
      [] command_name \in {"L", "l", "T", "t"} -> 2
      [] command_name \in {"H", "h", "V", "v"} -> 1
      [] OTHER -> 0

\* the call is made, the position moves, the parameters used are dropped
Drawn(t, call) ==
    [t EXCEPT !.calls = Append(@, call), !.position = call.end,
              !.parameters = SubSeq(@, Arity(t.command_name) + 1, Len(@))]

\* lines 1087 and 1102: a flag that is neither 0 nor 1 cannot be read
AnyFlag(flag) == FALSE

Unreadable(flag) == flag # R(0) /\ flag # R(1)

\* lines 1086-1114
ArcGroup(t) ==
    IF Unreadable(t.parameters[4]) \/ Unreadable(t.parameters[5])
    THEN [t EXCEPT !.parameters = SubSeq(@, 8, Len(@))]
    ELSE Drawn(t, Arc(t.position,
                      <<RMul(t.parameters[1], unit_w), RMul(t.parameters[2], unit_h)>>,
                      t.parameters[3],
                      <<t.parameters[4] # R(0), t.parameters[5] # R(0)>>,
                      Target(t, 6)))

\* lines 1116-1138
CubicGroup(t) ==
    The({Drawn([t EXCEPT !.previous_cubic = handle2],
               Cubic(t.position, Target(t, 1), handle2, Target(t, 5))) :
           handle2 \in {Target(t, 3)}})

\* lines 1140-1148 and 1238-1246
AxisGroup(t) ==
    Drawn(t, Line(t.position,
                  CASE t.command_name = "H" -> <<RMul(t.parameters[1], unit_w), t.position[2]>>
                    [] t.command_name = "h" ->
                         <<RAdd(t.position[1], RMul(t.parameters[1], unit_w)), t.position[2]>>
                    [] t.command_name = "V" -> <<t.position[1], RMul(t.parameters[1], unit_h)>>
                    [] t.command_name = "v" ->
                         <<t.position[1], RAdd(t.position[2], RMul(t.parameters[1], unit_h))>>))

\* lines 1150-1160
LineGroup(t) == Drawn(t, Line(t.position, Target(t, 1)))

\* lines 1162-1182
QuadraticGroup(t) ==
    The({Drawn([t EXCEPT !.previous_quadratic = handle],
               Quadratic(t.position, handle, Target(t, 3))) :
           handle \in {Target(t, 1)}})

\* lines 1186-1187, 1201-1202, 1216-1217, 1228-1229: x + (x - previous_x)
Kept(position, previous) == previous

Mirrored(position, previous) ==
    <<RAdd(position[1], RSub(position[1], previous[1])),
      RAdd(position[2], RSub(position[2], previous[2]))>>

\* lines 1184-1212
SmoothCubicGroup(t) ==
    The({Drawn([t EXCEPT !.previous_cubic = handle2],
               Cubic(t.position, handle1, handle2, Target(t, 3))) :
           handle1 \in {Mirrored(t.position, t.previous_cubic)},
           handle2 \in {Target(t, 1)}})

\* lines 1214-1236
SmoothQuadraticGroup(t) ==
    The({Drawn([t EXCEPT !.previous_quadratic = handle],
               Quadratic(t.position, handle, Target(t, 1))) :
           handle \in {Mirrored(t.position, t.previous_quadratic)}})

\* one round of the while loop of the command
Group(t) ==
    CASE t.command_name \in {"A", "a"} -> ArcGroup(t)
      [] t.command_name \in {"C", "c"} -> CubicGroup(t)
      [] t.command_name \in {"H", "h", "V", "v"} -> AxisGroup(t)
      [] t.command_name \in {"L", "l"} -> LineGroup(t)
      [] t.command_name \in {"Q", "q"} -> QuadraticGroup(t)
      [] t.command_name \in {"S", "s"} -> SmoothCubicGroup(t)
      [] t.command_name \in {"T", "t"} -> SmoothQuadraticGroup(t)

\* while len(parameters) >= ...
RECURSIVE Groups(_)
Groups(t) ==
    IF Arity(t.command_name) = 0 \/ Len(t.parameters) < Arity(t.command_name) THEN t
    ELSE CHOOSE after \in {Groups(next) : next \in {Group(t)}} : TRUE

\* lines 1247-1250
ClosedInPlace(t) == [t EXCEPT !.calls = Append(@, Line(t.position, t.start))]

Closed(t) == [t EXCEPT !.calls = Append(@, Line(t.position, t.start)), !.position = t.start]

\* lines 1085-1252
Draw(t) ==
    IF t.continued THEN t
    ELSE IF t.command_name \in {"Z", "z"} THEN Closed(t)
    ELSE Groups(t)

\* lines 1254-1259; the continue of lines 1062 and 1074 passes them by
Remembered(t) ==
    IF t.continued THEN t
    ELSE [t EXCEPT !.previous_quadratic =
                       IF t.command_name \notin {"Q", "q", "T", "t"} THEN t.position ELSE @,
                   !.previous_cubic =
                       IF t.command_name \notin {"C", "c", "S", "s"} THEN t.position ELSE @]

\* lines 1054-1259: one round of the loop over the commands
PathCommandFrom(p, command) ==
    The({Remembered(drawn) : drawn \in {Draw(moved) : moved \in {Move(t) : t \in {CommandBegin(p, command)}}}})

(***************************************************************************)
(* A group of a line and a path, parsed as parse_g does, one child after   *)
(* the other on the same Parser (lines 1001-1002).  The path is parsed one *)
(* command at a time.                                                      *)
(***************************************************************************)
MaxTokens == 3

PathTokens ==
    { "M1,2", "M5", "m1 1 3 0", "L4,0", "C 0,0 10,0 10,10", "S 10,20 0,20", "Q4,0 4,4",
      "T8,8", "A5 5 0 0 1 10 0", "a5 5 0 2 1 3 0 5 5 0 1 0 3 0", "Z", "X1 2",
      "s1,2 3,4 -1,0 2,2", "t2 -2", "M1,2 4,2 4,6 9" }

RECURSIVE JoinWords(_)
JoinWords(words) ==
    IF Len(words) = 0 THEN ""
    ELSE IF Len(words) = 1 THEN words[1]
    ELSE words[1] \o " " \o JoinWords(Tail(words))

\* stroke-dashoffset of the line, then stroke-dasharray, stroke-dashoffset
\* and transform of the path
PathStrokes ==
    { <<"0", "", "0", "">>, <<"5", "3 1", "0", "">>, <<"5", "3 1", "2", "">>,
      <<"0", "3 1", "2", "scale(2)">>, <<"0", "", "0", "translate(a,b)">> }

LineOf(stroke) ==
    Element("line", [x2 |-> "4"] @@ ("stroke-dashoffset" :> stroke[1]), "", <<>>)

PathOf(words, stroke) ==
    Element("path",
            [d |-> JoinWords(words), transform |-> stroke[4]]
                @@ ("stroke-dasharray" :> stroke[2]) @@ ("stroke-dashoffset" :> stroke[3]),
            "", <<>>)

PathDocuments ==
    { Element("g", EmptyDict, "", <<LineOf(stroke), PathOf(words, stroke)>>) :
        words \in UNION { [1..k -> PathTokens] : k \in 0..MaxTokens },
        stroke \in PathStrokes }

\* coarser than every curve drawn here is long: each curve is one line
CoarseResolution == R(64)

InitPath ==
    /\ ParserInit(CoarseResolution, DefaultMachine[1], DefaultMachine[2])
    /\ tree \in PathDocuments
    /\ op = "call"
    /\ args = <<>>
    /\ ret = <<>>
    /\ out = <<>>

\* lines 1012-1022
LineFromElement(element) ==
    The({YieldAll(<<TravelTo(from), Line(from, to)>>, 1,
                  convert_length(Get(element.attrib, "stroke-dashoffset", "0"), FALSE, None),
                  convert_length(Get(element.attrib, "stroke-width", "0.35mm"), FALSE, None),
                  convert_transform(Get(element.attrib, "transform", "")).value) :
           from \in {<<convert_length(Get(element.attrib, "x1", "0"), FALSE, None),
                       convert_length(Get(element.attrib, "y1", "0"), TRUE, None)>>},
           to \in {<<convert_length(Get(element.attrib, "x2", "0"), FALSE, None),
                     convert_length(Get(element.attrib, "y2", "0"), TRUE, None)>>}})

\* parse_line on the first child
ParseLine ==
    /\ op = "call"
    /\ \E stored \in {convert_dasharray(Get(tree.children[1].attrib, "stroke-dasharray", ""))},
          made \in {LineFromElement(tree.children[1])} :
         /\ op' = Ended(made, "parse_line")
         /\ dasharray' = stored.dasharray
         /\ dasharray_length' = stored.dasharray_length
         /\ dasharray_offset' = made.dasharray_offset
         /\ out' = made.commands
    /\ UNCHANGED <<resolution, viewport_x, viewport_y, viewport_w, viewport_h, image_w, image_h,
                   unit_w, unit_h, cssVars, tree, args, ret>>

\* lines 1033-1052 of parse_path on the second child: the dash pattern is
\* stored on the Parser, the dash offset in a local variable
PathStart ==
    /\ op = "parse_line"
    /\ \E line_width \in {convert_length(Get(tree.children[2].attrib, "stroke-width", "0.35mm"),
                                         FALSE, None)},
          transformation \in {convert_transform(Get(tree.children[2].attrib, "transform", ""))},
          stored \in {convert_dasharray(Get(tree.children[2].attrib, "stroke-dasharray", ""))},
          offset \in {convert_length(Get(tree.children[2].attrib, "stroke-dashoffset", "0"),
                                     FALSE, None)} :
         IF transformation.raised
         THEN /\ op' = "ValueError"
              /\ UNCHANGED <<dasharray, dasharray_length, args, ret>>
         ELSE /\ op' = "parse_path"
              /\ dasharray' = stored.dasharray
              /\ dasharray_length' = stored.dasharray_length
              /\ args' = [first |-> Len(out) + 1, dasharray_offset |-> offset]
              /\ ret' = PathBegin(Get(tree.children[2].attrib, "d", ""), line_width,
                                  transformation.value, offset)
    /\ UNCHANGED <<resolution, viewport_x, viewport_y, viewport_w, viewport_h, image_w, image_h,
                   unit_w, unit_h, dasharray_offset, cssVars, tree, out>>

\* what the round leaves of the command: its letter and parameters as read,
\* where it started and ended, the start point of the subpath after it, the
\* calls it made, the dash offset of the Parser at
\* its first call and after its last, the commands it yielded
Logged(p, t, before, made) ==
    [command_name |-> Char(Head(p.commands), 1),
     parameters |-> Floats(From(Head(p.commands), 2)),
     from |-> p.position, to |-> t.position, start |-> t.start, calls |-> t.calls,
     continued |-> t.continued,
     before |-> before, after |-> made.dasharray_offset, commands |-> made.commands]

\* the variables of parse_path after the round
PathAfter(p, t, before, made) ==
    [p EXCEPT !.position = t.position, !.start = t.start,
              !.previous_quadratic = t.previous_quadratic,
              !.previous_cubic = t.previous_cubic, !.commands = Tail(@),
              !.log = Append(@, Logged(p, t, before, made))]

\* lines 1053-1259: one round of the loop over the commands, with all it
\* yields; lines 1066 and 1078 put the local dash offset back on the Parser
PathCommand ==
    /\ op = "parse_path"
    /\ ret.commands # <<>>
    /\ \E t \in {PathCommandFrom(ret, Head(ret.commands))} :
         \E before \in {IF t.moved THEN ret.dasharray_offset ELSE dasharray_offset} :
           \E made \in {YieldAll(t.calls, 1, before, ret.line_width, ret.transformation)} :
             /\ op' = Ended(made, "parse_path")
             /\ dasharray_offset' = made.dasharray_offset
             /\ ret' = PathAfter(ret, t, before, made)
             /\ out' = out \o made.commands
    /\ UNCHANGED <<resolution, viewport_x, viewport_y, viewport_w, viewport_h, image_w, image_h,
                   unit_w, unit_h, dasharray, dasharray_length, cssVars, tree, args>>

NextPath == ParseLine \/ PathStart \/ PathCommand

SpecPath == InitPath /\ [][NextPath]_vars

\* 2 * point - control
Reflection(point, control) ==
    <<RSub(RMul(R(2), point[1]), control[1]), RSub(RMul(R(2), point[2]), control[2])>>

\* the control point a curve hands to the smooth curve after it: the second
\* handle of a cubic curve, the handle of a quadratic one
LastControl(call) == IF call.fn = "extrude_cubic" THEN call.handle2 ELSE call.handle1

\* the curve starts where the one before it ended, with the mirror of that
\* one's last control point as its first handle
Smooth(call, previous) ==
    /\ call.start = previous.end
    /\ call.handle1 = Reflection(previous.end, LastControl(previous))

Family(command_name) ==
    IF command_name \in {"S", "s"} THEN {"C", "c", "S", "s"}
    ELSE IF command_name \in {"T", "t"} THEN {"Q", "q", "T", "t"}
    ELSE {}

\* the curves of command k of the path are smooth: the first after the last
\* curve of the command before it, the others after the one before them
SmoothCommand(log, k) ==
    /\ \A j \in 2..Len(log[k].calls) : Smooth(log[k].calls[j], log[k].calls[j - 1])
    /\ (k > 1 /\ log[k].calls # <<>> /\ log[k - 1].command_name \in Family(log[k].command_name)
          /\ log[k - 1].calls # <<>>)
         => Smooth(log[k].calls[1], log[k - 1].calls[Len(log[k - 1].calls)])

\* C12: in parse_path every S/s curve that directly follows a C/c/S/s curve,
\* and every T/t curve that directly follows a Q/q/T/t curve, starts at the
\* current point with the reflection 2 * current_point - previous_control of
\* the previous curve's last control point as its first control point.
C12_SmoothMirrors ==
    op = "parse_path" =>
        \A k \in 1..Len(ret.log) :
            ret.log[k].command_name \in {"S", "s", "T", "t"} => SmoothCommand(ret.log, k)

\* "C 0,0 10,0 10,10 S 10,20 0,20": the S curve starts at (10,10) with the
\* first handle (10,20), the mirror of (10,0)
C12_Witness ==
    /\ op = "parse_path"
    /\ tree.children[2].attrib["d"] = "C 0,0 10,0 10,10 S 10,20 0,20"
    /\ Len(ret.log) = 2
    /\ ret.log[1].calls[1].handle2 = <<R(10), R(0)>>
    /\ ret.log[2].calls[1].fn = "extrude_cubic"
    /\ ret.log[2].calls[1].start = <<R(10), R(10)>>
    /\ ret.log[2].calls[1].handle1 = <<R(10), R(20)>>
    /\ ret.log[2].calls[1].handle2 = <<R(10), R(20)>>
    /\ ret.log[2].calls[1].end = <<R(0), R(20)>>

\* the arc of a group of seven parameters from a point, with the flags given
ArcOfGroup(from, group, relative, flags) ==
    Arc(from, <<RMul(group[1], unit_w), RMul(group[2], unit_h)>>, group[3], flags,
        IF relative THEN PointAdd(from, Pair(group, 6)) ELSE Pair(group, 6))

\* the arcs of the complete groups whose flags are both 0 or 1, each from
\* the end of the one before it; the other groups are passed over
RECURSIVE ReadableArcs(_, _, _)
ReadableArcs(from, parameters, relative) ==
    IF Len(parameters) < 7 THEN <<>>
    ELSE IF parameters[4] \in {R(0), R(1)} /\ parameters[5] \in {R(0), R(1)}
    THEN <<ArcOfGroup(from, parameters, relative,
                      <<parameters[4] = R(1), parameters[5] = R(1)>>)>>
         \o ReadableArcs(ArcOfGroup(from, parameters, relative, NoFlags).end,
                         SubSeq(parameters, 8, Len(parameters)), relative)
    ELSE ReadableArcs(from, SubSeq(parameters, 8, Len(parameters)), relative)

\* the arcs of all the complete groups, a flag true when its parameter is
\* not zero
RECURSIVE AllArcs(_, _, _)
AllArcs(from, parameters, relative) ==
    IF Len(parameters) < 7 THEN <<>>
    ELSE <<ArcOfGroup(from, parameters, relative,
                      <<parameters[4] # R(0), parameters[5] # R(0)>>)>>
         \o AllArcs(ArcOfGroup(from, parameters, relative, NoFlags).end,
                    SubSeq(parameters, 8, Len(parameters)), relative)

\* the command made these calls and ended where the last of them ends
DrewArcs(entry, arcs) ==
    /\ entry.calls = arcs
    /\ entry.to = IF arcs = <<>> THEN entry.from ELSE arcs[Len(arcs)].end

\* C18 as stated: every complete group of 7 parameters of an A/a command
\* draws an arc, its flags true exactly when the 4th and 5th parameters are
\* not zero, and moves the current point to the end point of the group.
C18_AnyNonZeroFlag ==
    op = "parse_path" =>
        \A k \in 1..Len(ret.log) :
            ret.log[k].command_name \in {"A", "a"} =>
                DrewArcs(ret.log[k], AllArcs(ret.log[k].from, ret.log[k].parameters,
                                             ret.log[k].command_name = "a"))

\* C18: every complete group of 7 parameters of an A/a command whose 4th
\* and 5th parameters are each 0 or 1 draws an arc, its flags true exactly
\* when the parameter is 1, and moves the current point to the end point of
\* the group; a group with another 4th or 5th parameter draws nothing and
\* leaves the current point where it is.
C18_ReadableFlags ==
    op = "parse_path" =>
        \A k \in 1..Len(ret.log) :
            ret.log[k].command_name \in {"A", "a"} =>
                DrewArcs(ret.log[k], ReadableArcs(ret.log[k].from, ret.log[k].parameters,
                                                  ret.log[k].command_name = "a"))

\* "L4,0 a5 5 0 2 1 3 0 5 5 0 1 0 3 0": the group with the flag 2 is passed
\* over, the second group draws the large arc from (4,0) to (7,0)
C18_Witness ==
    /\ op = "parse_path"
    /\ Len(ret.log) = 2
    /\ ret.log[1].command_name = "L"
    /\ ret.log[2].command_name = "a"
    /\ Len(ret.log[2].parameters) = 14
    /\ Len(ret.log[2].calls) = 1
    /\ ret.log[2].calls[1].fn = "extrude_arc"
    /\ ret.log[2].calls[1].start = <<R(4), R(0)>>
    /\ ret.log[2].calls[1].large_arc
    /\ ~ret.log[2].calls[1].sweep_flag
    /\ ret.position = <<R(7), R(0)>>

\* the last command the loop of parse_path has been through
LastCommand == ret.log[Len(ret.log)]

\* C20: after any command other than C/c/S/s has been consumed the last
\* cubic control equals the current point, and after any command other than
\* Q/q/T/t the last quadratic control equals the current point; this holds
\* for every command, unknown letters and an M/m with fewer than two
\* parameters included.
C20_ControlsReset ==
    (op = "parse_path" /\ ret.log # <<>>) =>
        /\ LastCommand.command_name \notin {"C", "c", "S", "s"}
             => ret.previous_cubic = ret.position
        /\ LastCommand.command_name \notin {"Q", "q", "T", "t"}
             => ret.previous_quadratic = ret.position

\* the commands the path has yielded
PathYield == SubSeq(out, args.first, Len(out))

\* C19: a shape handler that emits any command emits a Travel as its first
\* command, before any Extrude; for parse_path this holds for every d,
\* also when its first drawing command is not M/m.
C19_TravelFirst ==
    /\ (op = "parse_line" /\ out # <<>>) => out[1].type = "Travel"
    /\ (op = "parse_path" /\ PathYield # <<>>) => PathYield[1].type = "Travel"

\* the command called an extruder
Draws(entry) == \E i \in 1..Len(entry.calls) : entry.calls[i].fn # "travel"

\* C11: with a dash pattern on the path, the dash offset of the Parser is
\* the one of the path's own stroke-dashoffset at the first extruder call of
\* the path, and from then to the last command it only grows: what a
\* previously drawn element left behind plays no part.
C11_DashStateReset ==
    (op = "parse_path" /\ dasharray # <<>>) =>
        \A k \in 1..Len(ret.log) :
            Draws(ret.log[k]) =>
                /\ RLe(ret.log[k].before, ret.log[k].after)
                /\ \A j \in 1..(k - 1) :
                     Draws(ret.log[j]) => RLe(ret.log[j].after, ret.log[k].before)
                /\ (\A j \in 1..(k - 1) : ~Draws(ret.log[j]))
                     => ret.log[k].before = args.dasharray_offset

(***************************************************************************)
(* parse, parse_svg and parse_switch, lines 906-943 and 1352-1410, on a    *)
(* document of svg, switch, defs and line elements.  The generators are    *)
(* followed through the tree: the agenda holds the elements still to be    *)
(* entered, in document order, and for every svg and switch that has been  *)
(* entered the place where its generator returns, with the viewport        *)
(* context and the number of commands at the time it was entered.          *)
(***************************************************************************)
MaxChildren == 2

Context == <<viewport_x, viewport_y, viewport_w, viewport_h, image_w, image_h, unit_w, unit_h>>

Entering(element) == [element |-> element, leaving |-> FALSE, context |-> <<>>, first |-> 0]

Leaving(element) ==
    [element |-> element, leaving |-> TRUE, context |-> Context, first |-> Len(out) + 1]

RECURSIVE EnteringAll(_)
EnteringAll(elements) ==
    IF Len(elements) = 0 THEN <<>>
    ELSE <<Entering(Head(elements))>> \o EnteringAll(Tail(elements))

\* lines 915-917: the tag without the namespace, in lower case; None for an
\* element that is not in the SVG namespace
TagOf(element) ==
    IF StartsWith(Lower(element.tag), Namespace)
    THEN Lower(From(element.tag, Len(Namespace) + 1))
    ELSE None

Feature(name) == "http://www.w3.org/TR/SVG11/feature#" \o name

\* lines 1385-1402: no comma follows the Style entry or the five after it,
\* so the last seven strings are one string
supported_features ==
    { "", Feature("SVG"), Feature("SVGDOM"), Feature("SVG-static"), Feature("SVGDOM-static"),
      Feature("CoreAttribute"), Feature("Structure"), Feature("BasicStructure"),
      Feature("ConditionalProcessing"),
      Feature("Style") \o Feature("Shape") \o Feature("BasicText") \o Feature("PaintAttribute")
          \o Feature("BasicPaintAttribute") \o Feature("ColorProfile") \o Feature("Gradient") }

\* lines 1403-1404
required_features(element) ==
    { Strip(SplitOn(Get(element.attrib, "requiredFeatures", ""), ",")[i]) :
        i \in 1..Len(SplitOn(Get(element.attrib, "requiredFeatures", ""), ",")) }

\* line 1406
AllSupported(element) == required_features(element) \ supported_features = {}

\* lines 1359-1368: the four floats are stored one after the other, up to
\* the first that is not a float
ViewBox(element) ==
    IF "viewBox" \notin DOMAIN element.attrib
          \/ Len(Split(element.attrib["viewBox"])) # 4
    THEN <<viewport_x, viewport_y, viewport_w, viewport_h>>
    ELSE The({ [i \in 1..4 |->
                  IF \A j \in 1..i : IsFloat(parts[j]) THEN Float(parts[i])
                  ELSE <<viewport_x, viewport_y, viewport_w, viewport_h>>[i]] :
               parts \in {Split(element.attrib["viewBox"])} })

SimpleLine(x2) == Element("line", [x2 |-> x2], "", <<>>)

\* an svg inside the document: its viewBox and its width
NestedSvgs ==
    { Element("svg", Written([viewBox |-> box, width |-> width], {"viewBox", "width"}, ""),
              "", <<SimpleLine("2")>>) :
        box \in {"0 0 20 10", "5 5 x 10", "0 0 0 10", "1 2 3"}, width \in {"", "40"} }

Switches ==
    { Element("switch", Written([requiredFeatures |-> required], {"requiredFeatures"}, "-"),
              "", children) :
        required \in {"-", Feature("SVG") \o ", " \o Feature("Structure"), Feature("Shape"),
                      Feature("SVG") \o ",foo"},
        children \in {<<>>, <<SimpleLine("3")>>, <<SimpleLine("3"), SimpleLine("5")>>} }

DocumentItems ==
    NestedSvgs \cup Switches
        \cup {SimpleLine("4"), Element("defs", EmptyDict, "", <<SimpleLine("6")>>)}

Documents ==
    { Element("svg", Written([viewBox |-> box, width |-> width], {"viewBox", "width"}, ""),
              "", children) :
        box \in {"", "0 0 100 50"}, width \in {"", "100mm"},
        children \in UNION { [1..k -> DocumentItems] : k \in 0..MaxChildren } }

InitDocument ==
    /\ ParserInit(DefaultResolution, DefaultMachine[1], DefaultMachine[2])
    /\ tree \in Documents
    /\ op = "call"
    /\ args = <<>>
    /\ ret = [agenda |-> <<Entering(tree)>>, left |-> <<>>]
    /\ out = <<>>

\* the generator is at the start of parse for an element with this tag
At(tags) ==
    /\ op \notin {"ZeroDivisionError", "hang"}
    /\ ret.agenda # <<>>
    /\ ~Head(ret.agenda).leaving
    /\ TagOf(Head(ret.agenda).element) \in tags

\* the generator of an element of this tag is at its end
AtEndOf(tag) ==
    /\ op \notin {"ZeroDivisionError", "hang"}
    /\ ret.agenda # <<>>
    /\ Head(ret.agenda).leaving
    /\ TagOf(Head(ret.agenda).element) = tag

\* lines 1359-1375: up to the first child
ParseSvg ==
    /\ At({"svg"})
    /\ \E element \in {Head(ret.agenda).element} :
         \E box \in {ViewBox(element)},
            width \in {convert_length(Get(element.attrib, "width", "100%"), FALSE, None)},
            height \in {convert_length(Get(element.attrib, "height", "100%"), TRUE, None)} :
           /\ viewport_x' = box[1]
           /\ viewport_y' = box[2]
           /\ viewport_w' = box[3]
           /\ viewport_h' = box[4]
           /\ image_w' = width
           /\ image_h' = height
           /\ unit_w' = IF box[3] = RZero THEN unit_w ELSE RDiv(width, box[3])
           /\ unit_h' = IF box[3] = RZero \/ box[4] = RZero THEN unit_h
                        ELSE RDiv(height, box[4])
           /\ op' = IF box[3] = RZero \/ box[4] = RZero THEN "ZeroDivisionError"
                    ELSE "parse_svg"
           /\ ret' = [ret EXCEPT !.agenda = EnteringAll(element.children)
                                              \o <<Leaving(element)>> \o Tail(@)]
    /\ UNCHANGED <<resolution, dasharray, dasharray_offset, dasharray_length, cssVars, tree,
                   args, out>>

\* the end of parse_svg, after line 1375
LeftSvg ==
    /\ AtEndOf("svg")
    /\ op' = "left_svg"
    /\ ret' = [ret EXCEPT !.agenda = Tail(@), !.left = Head(ret.agenda)]
    /\ UNCHANGED <<parserVars, cssVars, tree, args, out>>

\* lines 1403-1410: up to the first child
ParseSwitch ==
    /\ At({"switch"})
    /\ \E element \in {Head(ret.agenda).element} :
         ret' = [ret EXCEPT !.agenda =
                     (IF AllSupported(element) THEN EnteringAll(element.children) ELSE <<>>)
                         \o <<Leaving(element)>> \o Tail(@)]
    /\ op' = "parse_switch"
    /\ UNCHANGED <<parserVars, cssVars, tree, args, out>>

\* the end of parse_switch, lines 1407 and 1410
LeftSwitch ==
    /\ AtEndOf("switch")
    /\ op' = "left_switch"
    /\ ret' = [ret EXCEPT !.agenda = Tail(@), !.left = Head(ret.agenda)]
    /\ UNCHANGED <<parserVars, cssVars, tree, args, out>>

\* parse_line, lines 1012-1022
ParseLineElement ==
    /\ At({"line"})
    /\ \E element \in {Head(ret.agenda).element} :
         \E stored \in {convert_dasharray(Get(element.attrib, "stroke-dasharray", ""))},
            made \in {LineFromElement(element)} :
           /\ op' = Ended(made, "parse_line")
           /\ dasharray' = stored.dasharray
           /\ dasharray_length' = stored.dasharray_length
           /\ dasharray_offset' = made.dasharray_offset
           /\ out' = out \o made.commands
    /\ ret' = [ret EXCEPT !.agenda = Tail(@)]
    /\ UNCHANGED <<resolution, viewport_x, viewport_y, viewport_w, viewport_h, image_w, image_h,
                   unit_w, unit_h, cssVars, tree, args>>

\* lines 920-921: defs and what is in it is passed over
ParseDefs ==
    /\ At({"defs"})
    /\ op' = "parse"
    /\ ret' = [ret EXCEPT !.agenda = Tail(@)]
    /\ UNCHANGED <<parserVars, cssVars, tree, args, out>>

NextDocument ==
    ParseSvg \/ LeftSvg \/ ParseSwitch \/ LeftSwitch \/ ParseLineElement \/ ParseDefs

SpecDocument == InitDocument /\ [][NextDocument]_vars

\* C16: when an svg element is left the viewport context (viewport_x/y/w/h,
\* image_w/h, unit_w/h) is the one that held before it was entered, so that
\* what follows the svg sees the context as if the svg had not been visited.
C16_ViewportRestored == op = "left_svg" => Context = ret.left.context

\* the commands the element left has yielded
YieldOfLeft == SubSeq(out, ret.left.first, Len(out))

\* C17: parse_switch yields nothing when requiredFeatures holds a feature
\* that is not supported, and otherwise the commands of its first child
\* only (the children here are all eligible): nothing of a second child.
C17_FirstChildOnly ==
    op = "left_switch" =>
        YieldOfLeft = IF ~AllSupported(ret.left.element) \/ ret.left.element.children = <<>>
                      THEN <<>>
                      ELSE LineFromElement(ret.left.element.children[1]).commands

\* the point the pair i of the parameters of an M or m names: for m, from
\* the point the pair before it names, the first from where the command
\* started
RECURSIVE PairPoint(_, _)
PairPoint(entry, i) ==
    IF entry.command_name = "M" THEN Pair(entry.parameters, 2 * i - 1)
    ELSE PointAdd(IF i = 1 THEN entry.from ELSE PairPoint(entry, i - 1),
                  Pair(entry.parameters, 2 * i - 1))

\* a Travel to the first pair, then a line to each of the other pairs
MoveAndLines(entry) ==
    [i \in 1..(Len(entry.parameters) \div 2) |->
        IF i = 1 THEN TravelTo(PairPoint(entry, 1))
        ELSE Line(PairPoint(entry, i - 1), PairPoint(entry, i))]

\* C21: in parse_path an M (m) command with k >= 1 coordinate pairs makes
\* one Travel to the first pair (absolute, or relative to the current
\* point), records the first pair as the start of the subpath and draws the
\* other k - 1 pairs as L (l) lines in order; the start of the subpath stays
\* at the first pair.
C21_MoveThenLines ==
    op = "parse_path" =>
        \A k \in 1..Len(ret.log) :
            (ret.log[k].command_name \in {"M", "m"} /\ Len(ret.log[k].parameters) >= 2) =>
                /\ ret.log[k].calls = MoveAndLines(ret.log[k])
                /\ ret.log[k].start = PairPoint(ret.log[k], 1)
                /\ ret.log[k].to = PairPoint(ret.log[k], Len(ret.log[k].parameters) \div 2)
                /\ ret.log[k].commands[1] =
                       travel(PairPoint(ret.log[k], 1)[1], PairPoint(ret.log[k], 1)[2],
                              ret.transformation)[1]

\* "L4,0 m1 1 3 0": a Travel to (5,1), a line from there to (8,1), the
\* subpath starts at (5,1)
C21_Witness ==
    /\ op = "parse_path"
    /\ Len(ret.log) = 2
    /\ ret.log[1].command_name = "L"
    /\ ret.log[2].command_name = "m"
    /\ Len(ret.log[2].calls) = 2
    /\ ret.log[2].calls[1].fn = "travel"
    /\ ret.log[2].calls[1].end = <<R(5), R(1)>>
    /\ ret.log[2].calls[2].fn = "extrude_line"
    /\ ret.log[2].calls[2].end = <<R(8), R(1)>>
    /\ ret.start = <<R(5), R(1)>>
    /\ ret.position = <<R(8), R(1)>>

\* the start of the subpath before command k
StartBefore(log, k) == IF k = 1 THEN Origin ELSE log[k - 1].start

\* C22: in parse_path Z/z draws a line from the current point to the start
\* point of the most recent M/m and makes that start point the current
\* point, so that the command after Z starts from it; after every command
\* the subpath start is the first coordinate pair of the last M/m processed,
\* (0,0) when there was none.
C22_CloseToStart ==
    op = "parse_path" =>
        \A k \in 1..Len(ret.log) :
            /\ ret.log[k].from = IF k = 1 THEN Origin ELSE ret.log[k - 1].to
            /\ ret.log[k].start =
                   IF ret.log[k].command_name \in {"M", "m"} /\ Len(ret.log[k].parameters) >= 2
                   THEN PairPoint(ret.log[k], 1)
                   ELSE StartBefore(ret.log, k)
            /\ ret.log[k].command_name \in {"Z", "z"} =>
                   /\ ret.log[k].calls = <<Line(ret.log[k].from, StartBefore(ret.log, k))>>
                   /\ ret.log[k].to = StartBefore(ret.log, k)

\* "M1,2 4,2 4,6 9 Z t2 -2": Z draws from (4,6) to (1,2), and the curve
\* after it starts at (1,2)
C22_Witness ==
    /\ op = "parse_path"
    /\ Len(ret.log) = 3
    /\ ret.log[1].command_name = "M"
    /\ ret.log[2].command_name = "Z"
    /\ ret.log[2].calls[1].start = <<R(4), R(6)>>
    /\ ret.log[2].calls[1].end = <<R(1), R(2)>>
    /\ ret.log[3].command_name = "t"
    /\ ret.log[3].calls[1].start = <<R(1), R(2)>>
    /\ ret.log[3].calls[1].end = <<R(3), R(0)>>

(***************************************************************************)
(* extrude_line under a dash pattern: one <line> from the origin along the *)
(* x axis, drawn by parse_line (lines 1004-1022) from its stroke-dasharray *)
(* and stroke-dashoffset.  ret keeps the offset the element set and the    *)
(* commands of the same line drawn from that offset moved by whole runs of *)
(* the pattern.                                                            *)
(***************************************************************************)
MaxShift == 2

DashPatternTexts == {"3 1", "2", "1.5 2 0.5", "0 2", "2 0 1", "0 0", "0", "-1"}

DashOffsetTexts == {"0", "0.5", "3", "4", "9.5", "23", "-0.5", "-4", "-7", "-18.5"}

DashLineTexts == {"0", "1", "4", "9"}

DashLines ==
    { Element("line",
              [x2 |-> x2] @@ ("stroke-dasharray" :> pt) @@ ("stroke-dashoffset" :> ot),
              "", <<>>) :
        x2 \in DashLineTexts, pt \in DashPatternTexts, ot \in DashOffsetTexts }

InitDash ==
    /\ ParserInit(DefaultResolution, DefaultMachine[1], DefaultMachine[2])
    /\ tree \in DashLines
    /\ op = "call"
    /\ args \in [shift : (-MaxShift)..MaxShift]
    /\ ret = <<>>
    /\ out = <<>>

\* lines 1012-1018 of parse_line: the pattern and the offset of the element
DashLineStart ==
    /\ op = "call"
    /\ \E stored \in {convert_dasharray(Get(tree.attrib, "stroke-dasharray", ""))},
          offset \in {convert_length(Get(tree.attrib, "stroke-dashoffset", "0"), FALSE, None)} :
         /\ op' = "parse_line"
         /\ dasharray' = stored.dasharray
         /\ dasharray_length' = stored.dasharray_length
         /\ dasharray_offset' = offset
         /\ ret' = [offset |-> offset, length |-> RZero, shifted |-> <<>>]
    /\ UNCHANGED <<resolution, viewport_x, viewport_y, viewport_w, viewport_h, image_w, image_h,
                   unit_w, unit_h, cssVars, tree, args, out>>

\* the line of the element drawn with the dash offset at the given value
LineFromOffset(element, offset) ==
    The({YieldAll(<<TravelTo(from), Line(from, to)>>, 1, offset,
                  convert_length(Get(element.attrib, "stroke-width", "0.35mm"), FALSE, None),
                  convert_transform(Get(element.attrib, "transform", "")).value) :
           from \in {<<convert_length(Get(element.attrib, "x1", "0"), FALSE, None),
                       convert_length(Get(element.attrib, "y1", "0"), TRUE, None)>>},
           to \in {<<convert_length(Get(element.attrib, "x2", "0"), FALSE, None),
                     convert_length(Get(element.attrib, "y2", "0"), TRUE, None)>>}})

\* lines 1019-1022 of parse_line: the travel to the start and extrude_line
DashLineDraw ==
    /\ op = "parse_line"
    /\ \E made \in {LineFromOffset(tree, dasharray_offset)},
          moved \in {LineFromOffset(tree, RAdd(dasharray_offset,
                                               RMul(R(args.shift), dasharray_length)))} :
         /\ op' = Ended(made, "extrude_line")
         /\ dasharray_offset' = made.dasharray_offset
         /\ out' = made.commands
         /\ ret' = [ret EXCEPT !.shifted = moved.commands,
                               !.length = convert_length(Get(tree.attrib, "x2", "0"), FALSE,
                                                         None)]
    /\ UNCHANGED <<resolution, viewport_x, viewport_y, viewport_w, viewport_h, image_w, image_h,
                   unit_w, unit_h, dasharray, dasharray_length, cssVars, tree, args>>

NextDash == DashLineStart \/ DashLineDraw

SpecDash == InitDash /\ [][NextDash]_vars

\* the largest whole number not above q
RFloor(q) == q[1] \div q[2]

\* (offset + s) modulo dasharray_length
Phase(offset, s) ==
    RSub(RAdd(offset, s),
         RMul(R(RFloor(RDiv(RAdd(offset, s), dasharray_length))), dasharray_length))

\* the span of the stored pattern that holds a phase, counted from 0
RECURSIVE SpanOf(_, _, _)
SpanOf(phase, index, cumulative_sum) ==
    IF index = Len(dasharray) - 1 \/ RLt(phase, RAdd(cumulative_sum, dasharray[index + 1]))
    THEN index
    ELSE SpanOf(phase, index + 1, RAdd(cumulative_sum, dasharray[index + 1]))

\* the type of the command that passes the point at distance s from the
\* travel that starts the line
Marked(commands, s) ==
    commands[CHOOSE i \in 2..Len(commands) :
                 /\ RLt(s, RSub(commands[i].x, commands[1].x))
                 /\ \A j \in 2..(i - 1) : ~RLt(s, RSub(commands[j].x, commands[1].x))].type

\* points strictly inside the line that lie on no edge of a span: the odd
\* quarters, the lengths and offsets being multiples of a half
SamplePoints(line_length) ==
    {s \in {Rat(2 * k + 1, 4) : k \in 0..(2 * RFloor(line_length) + 1)} : RLt(s, line_length)}

PositivePattern ==
    /\ dasharray # <<>>
    /\ \A i \in 1..Len(dasharray) : RLt(RZero, dasharray[i])

\* C23: with a non-empty pattern of positive lengths and an offset o of any
\* sign and size, the point at distance s along the line is extruded exactly
\* when (o + s) modulo dasharray_length lies in an even-indexed span of the
\* pattern and travelled when it lies in an odd-indexed one, and the same
\* points are extruded from o plus or minus whole multiples of
\* dasharray_length.
C23_DashPhase ==
    (op = "extrude_line" /\ PositivePattern) =>
        \A s \in SamplePoints(ret.length) :
            /\ Marked(out, s) =
                   (IF SpanOf(Phase(ret.offset, s), 0, RZero) % 2 = 0 THEN "Extrude"
                    ELSE "Travel")
            /\ Marked(ret.shifted, s) = Marked(out, s)

C23_Witness ==
    /\ op = "extrude_line"
    /\ dasharray = <<R(3), R(1)>>
    /\ ret.offset = R(-7)
    /\ ret.length = R(9)
    /\ args.shift = 2
    /\ Marked(out, Rat(1, 4)) = "Extrude"
    /\ Marked(out, Rat(9, 4)) = "Travel"
    /\ Marked(ret.shifted, Rat(9, 4)) = "Travel"
    /\ Marked(out, Rat(35, 4)) = "Extrude"

\* C24: extrude_line ends, having yielded finitely many commands, for every
\* pattern convert_dasharray stores and every offset, and no length of zero
\* is kept in a stored pattern.
C24_DashesTerminate ==
    /\ op # "hang"
    /\ op = "extrude_line" => Len(out) >= 2
    /\ op # "call" => \A i \in 1..Len(dasharray) : dasharray[i] # RZero

(***************************************************************************)
(* The steps of the curve extruders, in SpecCurve.                         *)
(***************************************************************************)
\* where a command lies
PointOf(command) == <<command.x, command.y>>

\* the step a command makes is no longer than the resolution
WithinResolution(from, to) == ~FurtherThanResolution(from, to)

ChordsWithinResolution(start_t, commands) ==
    \A j \in 1..Len(commands) :
        WithinResolution(IF j = 1 THEN start_t ELSE PointOf(commands[j - 1]),
                         PointOf(commands[j]))

\* C25: with no dash pattern, every step between consecutive points that
\* extrude_arc, extrude_quadratic and extrude_cubic emit is at most the
\* resolution long in device space, whichever test of the search accepted it.
C25_ChordsWithinResolution ==
    dasharray = <<>> =>
        \A i \in 1..Len(ret) :
            RanToEnd(ret[i]) =>
                ChordsWithinResolution(Transformed(args.curve.start, args.transformation),
                                       ret[i].commands)

\* C26: every call of extrude_arc, extrude_quadratic and extrude_cubic comes
\* to an end, at every positive resolution, each round of the outer loop
\* moving the search parameter on towards the end.
C26_CurvesTerminate ==
    \A i \in 1..Len(ret) : ~ret[i].hangs

(***************************************************************************)
(* The two readers of style texts: Parser.convert_css (lines 117-150 of    *)
(* Parser.py) and CSS.parse (lines 60-81 of CSS.py), called on one text.   *)
(***************************************************************************)
\* lines 41-54 of CSS.py: the attributes and their defaults
CSS_attributes ==
    [attribute \in {TrackedAttributes[i] : i \in 1..Len(TrackedAttributes)} |->
        CASE attribute = "font-family" -> "serif"
          [] attribute = "font-size" -> "12pt"
          [] attribute = "font-style" -> "normal"
          [] attribute = "font-weight" -> "400"
          [] attribute = "stroke-dashoffset" -> "0"
          [] attribute = "stroke-width" -> "0"
          [] attribute = "text-decoration-style" -> "solid"
          [] attribute = "text-transform" -> "none"
          [] OTHER -> ""]

\* lines 74-81 of CSS.py, the piece having a colon at index colon: the value
\* is the one character after the colon (an IndexError when there is none),
\* and the assignment to the field of a named tuple is an AttributeError
CSS_Rule(parsed, piece, colon) ==
    IF colon = Len(piece) THEN [parsed EXCEPT !.raised = "IndexError"]
    ELSE IF SubSeq(piece, 1, colon - 1) \notin DOMAIN parsed.attributes THEN parsed
    ELSE IF ~attribute_validate(SubSeq(piece, 1, colon - 1), Char(piece, colon + 1))
    THEN parsed
    ELSE [parsed EXCEPT !.raised = "AttributeError"]

\* lines 69-73 of CSS.py: a piece without a colon is passed over
CSS_Piece(parsed, piece) ==
    IF parsed.raised # "" \/ ~Contains(piece, ":") THEN parsed
    ELSE CSS_Rule(parsed, piece, Find(piece, ":"))

RECURSIVE CSS_Pieces(_, _)
CSS_Pieces(parsed, pieces) ==
    IF Len(pieces) = 0 THEN parsed
    ELSE CSS_Pieces(CSS_Piece(parsed, Strip(Head(pieces))), Tail(pieces))

\* CSS.parse on a CSS object as constructed
CSS_parse(css) == CSS_Pieces([attributes |-> CSS_attributes, raised |-> ""], SplitOn(css, ";"))

CssDeclarations ==
    { "stroke-width:2mm", "stroke-width: 2mm ", "stroke-width:wide", "stroke-width:2 wide",
      "font-weight:700", "font-weight:bold", "stroke-dasharray:3 1", "fill:red", "bogus",
      "transform:", "transform:rotate(5)", "font-style:italic",
      "font-family:Arial, transform: none", "text-decoration:underline stroke-width:3",
      "font-family:transform:scale(2)", "text-decoration: stroke-width:3",
      "font-weight:stroke-width:4", "transform:font-family:x" }

\* a style text: its last declaration and the declarations before it
CssStyles == [earlier : CssDeclarations \cup {""}, last : CssDeclarations]

StyleText(style) ==
    IF style.earlier = "" THEN style.last ELSE style.earlier \o "; " \o style.last

InitCss ==
    /\ ParserInit(DefaultResolution, DefaultMachine[1], DefaultMachine[2])
    /\ tree = <<>>
    /\ op = "call"
    /\ args \in CssStyles
    /\ ret = <<>>
    /\ out = <<>>

\* Parser.convert_css on the style text
ConvertCss ==
    /\ op = "call"
    /\ op' = "convert_css"
    /\ ret' = [result |-> convert_css(StyleText(args))]
    /\ UNCHANGED <<parserVars, cssVars, tree, args, out>>

\* CSS.parse on the same text, on a new CSS object
CssParse ==
    /\ op = "convert_css"
    /\ \E parsed \in {CSS_parse(StyleText(args))} :
         /\ op' = IF parsed.raised = "" THEN "parse" ELSE parsed.raised
         /\ ret' = [result |-> ret.result, attributes |-> parsed.attributes]
    /\ UNCHANGED <<parserVars, cssVars, tree, args, out>>

NextCss == ConvertCss \/ CssParse

SpecCss == InitCss /\ [][NextCss]_vars

\* the name of a declaration, before its first colon, and its trimmed value
DeclaredName(piece) == SubSeq(piece, 1, Find(piece, ":") - 1)

DeclaredText(piece) == Strip(From(piece, Find(piece, ":") + 1))

\* the last declaration of the style names a tracked property
LastTracked == Contains(args.last, ":") /\ DeclaredName(args.last) \in DOMAIN CSS_attributes

LastValid == attribute_validate(DeclaredName(args.last), DeclaredText(args.last))

\* the property the last declaration names has the declared value if that
\* is valid, and else what the declarations before it gave it
StoredIn(after, before) ==
    IF LastValid
    THEN /\ DeclaredName(args.last) \in DOMAIN after
         /\ after[DeclaredName(args.last)] = DeclaredText(args.last)
    ELSE /\ DeclaredName(args.last) \in DOMAIN after <=> DeclaredName(args.last) \in DOMAIN before
         /\ DeclaredName(args.last) \in DOMAIN after =>
                after[DeclaredName(args.last)] = before[DeclaredName(args.last)]

\* convert_css alone stores the valid value whole and leaves out the invalid one
ConvertCssStores == (op # "call" /\ LastTracked) => StoredIn(ret.result, convert_css(args.earlier))

\* C27: a declaration of a tracked property is stored with its whole trimmed
\* value when the value satisfies the property's predicate and is not stored
\* when it does not, the property keeping the value it had, both by
\* Parser.convert_css and by CSS.parse.
C27_DeclarationStored ==
    /\ ConvertCssStores
    /\ (op \notin {"call", "convert_css"} /\ LastTracked /\ CSS_parse(args.earlier).raised = "") =>
           /\ op = "parse"
           /\ StoredIn(ret.attributes, CSS_parse(args.earlier).attributes)

\* C30: in Parser.convert_css a declaration sets at most one property, the
\* one named before its first colon; no other property is set or changed by
\* what its value holds.
C30_OnePropertyPerDeclaration ==
    op # "call" =>
        \A attribute \in DOMAIN ret.result \cup DOMAIN convert_css(args.earlier) :
            (~Contains(args.last, ":") \/ attribute # DeclaredName(args.last)) =>
                /\ attribute \in DOMAIN ret.result
                /\ attribute \in DOMAIN convert_css(args.earlier)
                /\ ret.result[attribute] = convert_css(args.earlier)[attribute]

(***************************************************************************)
(* parse_switch and parse_svg once more, in SpecDocument.                  *)
(***************************************************************************)
\* the features that lines 1386-1401 list, one to a line
DocumentedFeatures ==
    { Feature(name) :
        name \in {"SVG", "SVGDOM", "SVG-static", "SVGDOM-static", "CoreAttribute", "Structure",
                  "BasicStructure", "ConditionalProcessing", "Style", "Shape", "BasicText",
                  "PaintAttribute", "BasicPaintAttribute", "ColorProfile", "Gradient"} }

\* requiredFeatures names listed features only, one or several
AllDocumented(element) ==
    /\ "requiredFeatures" \in DOMAIN element.attrib
    /\ required_features(element) \subseteq DocumentedFeatures

\* the commands of children that are lines, one after the other
RECURSIVE LinesOf(_)
LinesOf(children) ==
    IF Len(children) = 0 THEN <<>>
    ELSE LineFromElement(Head(children)).commands \o LinesOf(Tail(children))

\* C28: parse_switch renders the children of a switch whose
\* requiredFeatures names one feature that the supported_features list
\* gives as supported (Shape, Style, BasicText, ...), or several of them
\* separated by commas.
C28_DocumentedFeaturesRender ==
    (op = "left_switch" /\ AllDocumented(ret.left.element)) =>
        YieldOfLeft = LinesOf(ret.left.element.children)

\* the svg that parse_svg has just been called on: its end is the first
\* end on the agenda, and holds the context the call started from
RECURSIVE Entered(_)
Entered(agenda) == IF Head(agenda).leaving THEN Head(agenda) ELSE Entered(Tail(agenda))

\* not four parts, a part that is no number, or no width or height
InvalidViewBox(element) ==
    /\ "viewBox" \in DOMAIN element.attrib
    /\ \/ Len(Split(element.attrib["viewBox"])) # 4
       \/ \E i \in 1..4 : ~IsFloat(Split(element.attrib["viewBox"])[i])
       \/ Float(Split(element.attrib["viewBox"])[3]) = RZero
       \/ Float(Split(element.attrib["viewBox"])[4]) = RZero

\* C29: an svg element with an invalid viewBox is handled without an
\* exception and leaves viewport_x, viewport_y, viewport_w and viewport_h
\* as they were: a viewBox is applied completely or not at all.
C29_InvalidViewBoxIgnored ==
    (op \in {"parse_svg", "ZeroDivisionError"} /\ InvalidViewBox(Entered(ret.agenda).element)) =>
        /\ op = "parse_svg"
        /\ <<viewport_x, viewport_y, viewport_w, viewport_h>>
               = SubSeq(Entered(ret.agenda).context, 1, 4)

====
